---- MODULE Spec2Model ----
(***************************************************************************)
(* Verification model of datopian/portaljs-mcp-server.                     *)
(*                                                                         *)
(* The repository holds several variants of one MCP adapter.  Each part of *)
(* the model follows one piece of the source and has its own               *)
(* specification over the shared variables:                                *)
(*   SpecSession  the write-capable session agent (src/src/index.ts        *)
(*                788-1554 and src/unnamed/part_002 444-1293)              *)
(*   SpecCache    PortalJSAPIClient.makeRequest and the process-wide cache *)
(*                (src/src/portaljs-client.ts)                             *)
(*   SpecKey      getCacheKey (src/src/portaljs-client.ts 4-7)             *)
(*   SpecRouter   the organization-scoped router and its module global     *)
(*                (src/unnamed/part_001, src/src/index.ts 423-786)         *)
(*   SpecCompare  compare_datasets (src/unnamed/part_002 1232-1276)        *)
(***************************************************************************)
EXTENDS Integers, Sequences, FiniteSets, Bags, TLC

VARIABLES
    \* ---- session agent (McpAgent<Env, State>)
    variant,        \* which source file the agent is: "index" or "part_002"
    envApiUrl,      \* this.props.env.API_URL
    state,          \* this.state : [apiKey, apiUrl]
    initApiUrl,     \* const apiUrl captured by init() (src/src/index.ts:811)
    called,         \* the tool the transport invoked last
    result,         \* what that handler gave back to the transport
    issued,         \* the fetch() calls that invocation issued, in order
    \* ---- getCacheKey
    endpoint,       \* the endpoint argument
    params1,        \* a params argument
    params2,        \* another params argument
    cacheKey1,      \* getCacheKey(endpoint, params1), once computed
    cacheKey2,      \* getCacheKey(endpoint, params2), once computed
    \* ---- PortalJSAPIClient.makeRequest and the module's cache
    cache,          \* const cache = new Map(): key -> [data, timestamp]
    now,            \* Date.now()
    inflight,       \* the makeRequest calls suspended at await fetch(url), a bag
    ret,            \* how the makeRequest call that completed last ended
    \* ---- organization-scoped router and its tools
    routerVariant,  \* which source file the worker is: "part_001" or "index"
    current_api_url,\* let current_api_url / let CURRENT_API_URL
    connections,    \* the mounts an SSE connection was opened at
    invocations,    \* the tool invocations under way: [conn, tool, pc]
    lastFetch,      \* the upstream call issued last: [conn, url, action]
    routed,         \* what the router answered last
    \* ---- compare_datasets
    dataset_ids,    \* the dataset_ids argument
    promises,       \* the promises idsToCompare.map() made, one per id
    comparison,     \* what the handler gave back to the transport
    \* ---- preview_data_table
    pvPc,           \* where the handler is suspended
    pvLimit,        \* the limit argument
    pvResource,     \* result.url and lower-cased result.format of resource_show
    pvDatastore,    \* what datastore_search answered
    pvFetched,      \* the fetch() calls of the invocation, in order
    pvResult,       \* what the handler gave back to the transport
    pvOrganization, \* const organization = this.props?.env?.ORGANIZATION (src/src/index.ts:19)
    pvPackage,      \* what package_show answered for the resource's dataset
    \* ---- handleSearch (JSON-RPC variants)
    hsArgs,         \* args of handleSearch: [type, hasLimit, limit]
    hsPc,           \* where handleSearch is suspended
    hsLimits,       \* [datasets |-> datasetsLimit, orgs |-> orgsLimit]
    hsResults,      \* let results, the type of each entry
    hsReturn,       \* what handleSearch returned or threw
    \* ---- handleFetch (JSON-RPC variants) and get (organization-scoped variant)
    fhVariant,      \* which source file: part_000, part_002 or part_001 (its get tool)
    fhType,         \* args.type
    fhPc,           \* where the handler is suspended
    fhPayload,      \* what the upstream call gave
    fhReturn,       \* what the handler returned or threw
    \* ---- JSON-RPC framed worker
    rpcVariant,     \* which source file the worker is: part_000 or part_002
    rpcRequest,     \* the body of the last POST /sse
    rpcCalled,      \* the tool handler that request ran, or none
    rpcResponse,    \* the Response returned for it
    \* ---- get_related_datasets
    rdPc,           \* where the handler is suspended
    rdRelation,     \* the relation_type argument
    rdSource,       \* sourceData.result: [id, hasOrganization, hasTags]
    rdCandidates,   \* all the datasets the searches gave, in order
    relatedDatasets,\* const relatedDatasets
    rdReturn,       \* what the handler gave back to the transport
    \* ---- PortalJSAPIClient: the requests it sends
    clKey,          \* the apiKey argument the client was built with
    clBaseUrl,      \* this.baseUrl
    clOptions,      \* const options of the makeRequest call made last
    clSent,         \* the fetch() calls the client made, in order
    \* ---- parseLine (CSV)
    csvLine,        \* the line argument of parseLine, one character per element
    csvFields,      \* what parseLine returned: [done, fields]
    \* ---- buildTable
    tbFields,       \* the fields argument of buildTable, each name one character per element
    tbRecords,      \* the records argument: each record maps a field name to a value
    tbMetadata,     \* the metadata argument: [source, url, total, showing]
    tbTable         \* what buildTable returned: [done, lines], the text split at its line breaks

sessionVars == <<variant, envApiUrl, state, initApiUrl, called, result, issued>>
keyVars == <<endpoint, params1, params2, cacheKey1, cacheKey2>>
cacheVars == <<cache, now, inflight, ret>>

routerVars == <<routerVariant, current_api_url, connections, invocations, lastFetch, routed>>
compareVars == <<dataset_ids, promises, comparison>>
previewVars == <<pvPc, pvLimit, pvResource, pvDatastore, pvFetched, pvResult, pvOrganization, pvPackage>>
searchVars == <<hsArgs, hsPc, hsLimits, hsResults, hsReturn>>
fetchVars == <<fhVariant, fhType, fhPc, fhPayload, fhReturn>>
rpcVars == <<rpcVariant, rpcRequest, rpcCalled, rpcResponse>>
relatedVars == <<rdPc, rdRelation, rdSource, rdCandidates, relatedDatasets, rdReturn>>
clientVars == <<clKey, clBaseUrl, clOptions, clSent>>
csvVars == <<csvLine, csvFields>>
tableVars == <<tbFields, tbRecords, tbMetadata, tbTable>>

vars == <<sessionVars, keyVars, cacheVars, routerVars, compareVars, previewVars, searchVars, fetchVars, rpcVars, relatedVars, clientVars, csvVars, tableVars>>

\* ---------------------------------------------------------------- values

\* JavaScript undefined, for string-typed slots.
Undefined == "<undefined>"

\* JavaScript truthiness of a string-or-undefined value: !x is true for
\* undefined and for the empty string.
Truthy(x) == x # Undefined /\ x # ""

\* a || b on string-or-undefined values.
Or(a, b) == IF Truthy(a) THEN a ELSE b

DefaultApiUrl == "https://api.cloud.portaljs.com"

\* ------------------------------------------------------- upstream outcomes

\* What one fetch() and the reading of its response can do:
\*   net       fetch() resolved (FALSE: it rejected, a network failure)
\*   ok        response.ok
\*   parsable  response.json() resolves
\*   success   the envelope's success flag
\*   res       the envelope's result: "absent" (undefined or null), "falsy"
\*             (0, "", false: present but falsy) or "value" (truthy)
NetworkFailure ==
    [net |-> FALSE, ok |-> FALSE, parsable |-> FALSE, success |-> FALSE, res |-> "absent"]

ResultKinds == {"absent", "falsy", "value"}

Outcomes ==
    {NetworkFailure}
    \cup {[net |-> TRUE, ok |-> o, parsable |-> FALSE, success |-> FALSE, res |-> "absent"] :
            o \in BOOLEAN}
    \cup {[net |-> TRUE, ok |-> o, parsable |-> TRUE, success |-> s, res |-> r] :
            o \in BOOLEAN, s \in BOOLEAN, r \in ResultKinds}

\* ------------------------------------------------------------ tool results

\* { content: [{ type: "text", text }] }
Text(t) == [thrown |-> FALSE, content |-> <<[type |-> "text", text |-> t]>>]

\* the handler's promise rejected: an exception left the handler
Thrown == [thrown |-> TRUE, content |-> <<>>]

NoResult == [thrown |-> FALSE, content |-> <<>>]

IsOneText(r) ==
    /\ ~r.thrown
    /\ Len(r.content) = 1
    /\ r.content[1].type = "text"

\* ============================================================ getCacheKey
\* src/src/portaljs-client.ts 4-7.
\*
\* A params object is its properties in insertion order, each <<key, value>>;
\* a value is a string or a nested object whose values are strings.  A
\* string (the endpoint, the key) is the sequence of its tokens.

\* the property names in use, in the order Array.prototype.sort() gives
\* them (UTF-16 code units)
KeyOrder == <<"a", "b", "c">>

PropKeys == {KeyOrder[i] : i \in DOMAIN KeyOrder}

Atom(x) == [kind |-> "atom", atom |-> x, props |-> <<>>]
Object(ps) == [kind |-> "object", atom |-> "", props |-> ps]

\* the values a property takes: two strings and a nested object, one of
\* whose keys ("z") is no key of any params object
PropValues == {Atom("1"), Atom("2"), Object(<<<<"z", "1">>, <<"a", "2">>>>)}

\* params is optional: undefined, or an object
NoParams == [defined |-> FALSE, props |-> <<>>]
Params(ps) == [defined |-> TRUE, props |-> ps]

\* ---- bounds
\* the most properties a params object has
MaxProps == 3

RECURSIVE PropSeqs(_)
\* the property lists of n properties with distinct keys
PropSeqs(n) ==
    IF n = 0 THEN {<<>>}
    ELSE {Append(ps, <<k, v>>) :
            ps \in PropSeqs(n - 1), k \in PropKeys, v \in PropValues}

HasDistinctKeys(ps) ==
    \A i, j \in DOMAIN ps : ps[i][1] = ps[j][1] => i = j

ParamsSet ==
    {NoParams} \cup
    {Params(ps) : ps \in {q \in UNION {PropSeqs(n) : n \in 0..MaxProps} : HasDistinctKeys(q)}}

\* Object.keys(o), as a set
KeysOf(ps) == {ps[i][1] : i \in DOMAIN ps}

\* o[k]
Get(ps, k) == ps[CHOOSE i \in DOMAIN ps : ps[i][1] = k][2]

\* Object.keys(params): the keys in insertion order
ObjectKeys(ps) == [i \in DOMAIN ps |-> ps[i][1]]

\* Object.keys(params).sort(): the same keys in sorted order
SortedKeys(ps) == SelectSeq(KeyOrder, LAMBDA k : k \in KeysOf(ps))

RECURSIVE JoinComma(_)
\* the members of a list of strings, separated by ","
JoinComma(parts) ==
    IF parts = <<>> THEN <<>>
    ELSE IF Len(parts) = 1 THEN parts[1]
    ELSE parts[1] \o <<",">> \o JoinComma(Tail(parts))

\* the properties JSON.stringify writes for an object under a replacer
\* array: the names of the array, in the array's order, that the object has
Listed(ps, list) == SelectSeq(list, LAMBDA k : k \in KeysOf(ps))

\* JSON.stringify of an object whose values are strings
StringifyFlat(ps, list) ==
    <<"{">> \o
    JoinComma([i \in DOMAIN Listed(ps, list) |->
                <<Listed(ps, list)[i], ":", Get(ps, Listed(ps, list)[i])>>]) \o
    <<"}">>

\* JSON.stringify of a property value; the replacer array applies at every
\* depth
StringifyValue(v, list) ==
    IF v.kind = "atom" THEN <<v.atom>> ELSE StringifyFlat(v.props, list)

\* JSON.stringify(params, list)
Stringify(ps, list) ==
    <<"{">> \o
    JoinComma([i \in DOMAIN Listed(ps, list) |->
                <<Listed(ps, list)[i], ":">> \o
                StringifyValue(Get(ps, Listed(ps, list)[i]), list)]) \o
    <<"}">>

\* getCacheKey with the .sort() left out
getCacheKeyUnsorted(ep, params) ==
    <<ep, ":">> \o
    (IF params.defined THEN Stringify(params.props, ObjectKeys(params.props))
     ELSE <<"{", "}">>)

\* getCacheKey(endpoint, params)
getCacheKey(ep, params) ==
    <<ep, ":">> \o
    (IF params.defined THEN Stringify(params.props, SortedKeys(params.props))
     ELSE <<"{", "}">>)

Endpoints == {"package_show?id=x", "organization_list?all_fields=true"}

NotComputed == <<>>

KeyInit ==
    /\ endpoint \in Endpoints
    /\ params1 \in ParamsSet
    /\ params2 \in ParamsSet
    /\ cacheKey1 = NotComputed
    /\ cacheKey2 = NotComputed

\* the key of the first call is computed
ComputeKey1 ==
    /\ cacheKey1 = NotComputed
    /\ cacheKey1' = getCacheKey(endpoint, params1)
    /\ UNCHANGED <<endpoint, params1, params2, cacheKey2, sessionVars, cacheVars, routerVars, compareVars, previewVars, searchVars, fetchVars, rpcVars, relatedVars, clientVars, csvVars, tableVars>>

\* the key of the second call is computed
ComputeKey2 ==
    /\ cacheKey2 = NotComputed
    /\ cacheKey2' = getCacheKey(endpoint, params2)
    /\ UNCHANGED <<endpoint, params1, params2, cacheKey1, sessionVars, cacheVars, routerVars, compareVars, previewVars, searchVars, fetchVars, rpcVars, relatedVars, clientVars, csvVars, tableVars>>

KeyNext == ComputeKey1 \/ ComputeKey2

\* ============================================ makeRequest and the cache
\* src/src/portaljs-client.ts 1-11 and 48-106.

CACHE_TTL == 300000

\* ---- bounds
\* the clock is followed up to this time
MaxTime == 599999
\* the most makeRequest calls suspended at once
MaxInflight == 2

\* isCacheValid with <= for <
isCacheValidInclusive(timestamp, t) == t - timestamp <= CACHE_TTL

\* isCacheValid(timestamp), at Date.now() = t
isCacheValid(timestamp, t) == t - timestamp < CACHE_TTL

\* the guard of both cache blocks with the method test left out
CacheEligibleAnyMethod(method, useCache) == useCache

\* if (useCache && method === "GET")
CacheEligible(method, useCache) == useCache /\ method = "GET"

\* cache.get(cacheKey) is defined
Cached(c, key) == key \in DOMAIN c

\* cache.set(cacheKey, {data, timestamp})
CacheSet(c, key, data, timestamp) ==
    [k \in DOMAIN c \cup {key} |->
        IF k = key THEN [data |-> data, timestamp |-> timestamp] ELSE c[k]]

\* a hit that also re-stamps the entry
CacheAfterHitRefreshed(c, key, t) == CacheSet(c, key, c[key].data, t)

\* the cache after a hit: the hit branch only returns cached.data
CacheAfterHit(c, key, t) == c

\* the test of the envelope, if (!result.success) throw, left out
EnvelopeFailsNever(o) == FALSE

\* if (!result.success) throw new Error("PortalJS API Error: ...")
EnvelopeFails(o) == ~o.success

\* the payload an envelope's result carries when it is truthy (a result that
\* is absent or falsy gives the other payload there is, the empty mapping)
Payloads == {"r1"}

\* the empty mapping, {}
EmptyMapping == "{}"

\* const resultData = result.result || {}
ResultData(o, payload) == IF o.res = "value" THEN payload ELSE EmptyMapping

\* what the upstream answers: an outcome, and a payload when the envelope
\* carries a truthy result
Responses ==
    {[outcome |-> o, payload |-> ""] : o \in {x \in Outcomes : x.res # "value"}}
    \cup {[outcome |-> o, payload |-> p] : o \in {x \in Outcomes : x.res = "value"},
                                          p \in Payloads}

\* the arguments makeRequest is called with
Methods == {"GET", "POST"}
CallData == {NoParams, Params(<<<<"b", Atom("2")>>, <<"a", Atom("1")>>>>)}
CallEndpoint == "package_show?id=x"
\* (a call that is not cacheable never computes a use for its key, so the
\* second key is given to the cacheable calls only)
Calls ==
    {c \in [method : Methods, endpoint : {CallEndpoint}, data : CallData,
            useCache : BOOLEAN] :
        c.data = NoParams \/ CacheEligible(c.method, c.useCache)}

KeyOfCall(c) == getCacheKey(c.endpoint, c.data)

NoReturn == [kind |-> "none", data |-> ""]
Returned(kind, data) == [kind |-> kind, data |-> data]

CacheInit ==
    /\ cache = [k \in {} |-> [data |-> "", timestamp |-> 0]]
    /\ now = 0
    /\ inflight = EmptyBag
    /\ ret = NoReturn

\* Time passes.  The steps are chosen so that an entry is read at the ages
\* 0, 1, CACHE_TTL - 1 and CACHE_TTL.
Tick(d) ==
    /\ now + d <= MaxTime
    /\ now' = now + d
    /\ UNCHANGED <<cache, inflight, ret, sessionVars, keyVars, routerVars, compareVars, previewVars, searchVars, fetchVars, rpcVars, relatedVars, clientVars, csvVars, tableVars>>

\* makeRequest up to its first await: the cache lookup and, on a miss, the
\* fetch(url) it suspends on.
makeRequest(c) ==
    LET key == KeyOfCall(c) IN
    IF /\ CacheEligible(c.method, c.useCache)
       /\ Cached(cache, key)
       /\ isCacheValid(cache[key].timestamp, now)
    THEN /\ ret' = Returned("hit", cache[key].data)
         /\ cache' = CacheAfterHit(cache, key, now)
         /\ UNCHANGED <<now, inflight, sessionVars, keyVars, routerVars, compareVars, previewVars, searchVars, fetchVars, rpcVars, relatedVars, clientVars, csvVars, tableVars>>
    ELSE /\ BagCardinality(inflight) < MaxInflight
         /\ inflight' = inflight (+) SetToBag({c})
         /\ UNCHANGED <<cache, now, ret, sessionVars, keyVars, routerVars, compareVars, previewVars, searchVars, fetchVars, rpcVars, relatedVars, clientVars, csvVars, tableVars>>

\* makeRequest from the response on: a suspended call c resumes with
\* outcome o (and payload, when the envelope carries a truthy result).
makeRequestResume(c, o, payload) ==
    LET key == KeyOfCall(c)
        resultData == ResultData(o, payload)
    IN
    /\ BagIn(c, inflight)
    /\ inflight' = inflight (-) SetToBag({c})
    /\ IF ~o.net THEN
            ret' = Returned("network_error", "") /\ UNCHANGED cache
       ELSE IF ~o.ok THEN
            ret' = Returned("http_error", "") /\ UNCHANGED cache
       ELSE IF ~o.parsable THEN
            ret' = Returned("json_error", "") /\ UNCHANGED cache
       ELSE IF EnvelopeFails(o) THEN
            ret' = Returned("api_error", "") /\ UNCHANGED cache
       ELSE /\ ret' = Returned("result", resultData)
            /\ cache' = IF CacheEligible(c.method, c.useCache)
                         THEN CacheSet(cache, key, resultData, now)
                         ELSE cache
    /\ UNCHANGED <<now, sessionVars, keyVars, routerVars, compareVars, previewVars, searchVars, fetchVars, rpcVars, relatedVars, clientVars, csvVars, tableVars>>

CacheNext ==
    \/ \E d \in {CACHE_TTL - 1, CACHE_TTL} : Tick(d)
    \/ \E c \in Calls : makeRequest(c)
    \/ \E c \in Calls, r \in Responses : makeRequestResume(c, r.outcome, r.payload)

\* ================================================================ session
\* The write-capable agent: src/src/index.ts 788-1554 ("index") and
\* src/unnamed/part_002 444-1293 ("part_002").

Variants == {"index", "part_002"}

\* the tools the claims call write tools
WriteTools ==
    {"create_dataset", "update_dataset", "create_resource", "create_organization",
     "update_organization", "add_user_to_organization", "remove_user_from_organization"}

\* the tools each variant registers in init()
ToolsOf(v) ==
    IF v = "index"
    THEN {"set_api_key", "search", "fetch", "create_dataset", "list_organizations",
          "create_resource", "update_dataset", "create_organization",
          "update_organization", "add_user_to_organization",
          "remove_user_from_organization"}
    ELSE {"set_api_key", "search", "fetch", "create_dataset", "list_organizations",
          "create_resource", "update_dataset", "update_organization",
          "get_dataset_stats", "preview_resource", "get_organization_details",
          "get_related_datasets", "compare_datasets"}

\* the upstream action each tool calls
ActionOf(t) ==
    CASE t = "search" -> "package_search"
      [] t = "fetch" -> "package_show"
      [] t = "create_dataset" -> "package_create"
      [] t = "list_organizations" -> "organization_list_for_user"
      [] t = "create_resource" -> "resource_create"
      [] t = "update_dataset" -> "package_patch"
      [] t = "create_organization" -> "organization_create"
      [] t = "update_organization" -> "organization_patch"
      [] t = "add_user_to_organization" -> "organization_member_create"
      [] t = "remove_user_from_organization" -> "organization_member_delete"
      [] t = "get_dataset_stats" -> "package_show"
      [] t = "preview_resource" -> "datastore_search"
      [] t = "get_organization_details" -> "organization_show"

\* getApiUrl(): this.state.apiUrl || this.props?.env?.API_URL || default
getApiUrl(st, env) == Or(st.apiUrl, Or(env, DefaultApiUrl))

\* the base URL a handler builds its endpoint from: the constant init()
\* captured in "index", a fresh getApiUrl() per call in "part_002"
HandlerApiUrl(v, st, env, captured) ==
    IF v = "index" THEN captured ELSE getApiUrl(st, env)

\* the write-gate's test, if (!this.state.apiKey) return ..., negated
AuthenticatedNotUndefined(st) == st.apiKey # Undefined

Authenticated(st) == Truthy(st.apiKey)

\* The gate's message: create_dataset's text is longer than the others',
\* every one of them opens with this line.
AuthRequired == Text("Authentication required.")

\* What a handler returns from the response of its one fetch().
\* Handlers that test response.ok, then parse, then test success, then read
\* fields of data.result without testing it.
RespondDeref(o, failText, okText) ==
    IF ~o.net THEN Thrown
    ELSE IF ~o.ok THEN Text("Error: API returned")
    ELSE IF ~o.parsable THEN Thrown
    ELSE IF ~o.success THEN Text(failText)
    ELSE IF o.res = "absent" THEN Thrown
    ELSE Text(okText)

\* Handlers that test response.ok, parse, test success and never read
\* data.result unguarded.
RespondChecked(o, failText, okText) ==
    IF ~o.net THEN Thrown
    ELSE IF ~o.ok THEN Text("Error: API returned")
    ELSE IF ~o.parsable THEN Thrown
    ELSE IF ~o.success THEN Text(failText)
    ELSE Text(okText)

\* fetch: as RespondChecked, then !data.result and !result.id
RespondFetch(o) ==
    IF ~o.net THEN Thrown
    ELSE IF ~o.ok THEN Text("Error: API returned")
    ELSE IF ~o.parsable THEN Thrown
    ELSE IF ~o.success THEN Text("Error: upstream error")
    ELSE IF o.res # "value" THEN Text("Error: Missing result for request")
    ELSE Text("dataset")

\* list_organizations: !data.success || !data.result
RespondListOrganizations(o) ==
    IF ~o.net THEN Thrown
    ELSE IF ~o.ok THEN Text("Error: API returned")
    ELSE IF ~o.parsable THEN Thrown
    ELSE IF ~o.success \/ o.res # "value" THEN Text("Error: upstream error")
    ELSE Text("organizations")

\* get_dataset_stats, get_organization_details: no response.ok test;
\* await response.json(); if (!data.success || !data.result) return error text
RespondUnchecked(o, failText, okText) ==
    IF ~o.net THEN Thrown
    ELSE IF ~o.parsable THEN Thrown
    ELSE IF ~o.success \/ o.res # "value" THEN Text(failText)
    ELSE Text(okText)

\* preview_resource: no response.ok test; if (!data.success) return text;
\* then data.result.records and records.length unguarded
RespondPreviewResource(o) ==
    IF ~o.net THEN Thrown
    ELSE IF ~o.parsable THEN Thrown
    ELSE IF ~o.success THEN Text("Cannot preview this resource")
    ELSE IF o.res # "value" THEN Thrown
    ELSE Text("preview")

\* the answers told apart by a handler that never reads response.ok
UncheckedOutcomes == {NetworkFailure} \cup {o \in Outcomes : o.net /\ o.ok}

\* get_related_datasets, seen from the session: package_show of the source
\* (no response.ok test; !sourceData.success || !sourceData.result), then a
\* package_search whose result.results is read unguarded once success holds
RespondRelatedDatasets(o, o2) ==
    IF RespondUnchecked(o, "Error: Source dataset not found", "source") # Text("source")
    THEN RespondUnchecked(o, "Error: Source dataset not found", "source")
    ELSE IF ~o2.net \/ ~o2.parsable THEN Thrown
    ELSE IF o2.success /\ o2.res # "value" THEN Thrown
    ELSE Text("related")

\* compare_datasets of two ids, seen from the session: Promise.all rejects
\* when a fetch or a json() rejects, and otherwise every id gives an entry
RespondCompareDatasets(o, o2) ==
    IF ~o.net \/ ~o.parsable \/ ~o2.net \/ ~o2.parsable THEN Thrown
    ELSE Text("comparison")

\* the response handling of each tool
Respond(t, o) ==
    CASE t = "search" -> RespondChecked(o, "Error: upstream error", "results")
      [] t = "fetch" -> RespondFetch(o)
      [] t = "create_dataset" ->
            RespondDeref(o, "Error creating dataset", "Dataset created successfully!")
      [] t = "list_organizations" -> RespondListOrganizations(o)
      [] t = "create_resource" ->
            RespondDeref(o, "Error creating resource", "Resource added successfully!")
      [] t = "update_dataset" ->
            RespondDeref(o, "Error updating dataset", "Dataset updated successfully!")
      [] t = "create_organization" ->
            RespondDeref(o, "Error creating organization", "Organization created successfully!")
      [] t = "update_organization" ->
            RespondDeref(o, "Error updating organization", "Organization updated successfully!")
      [] t = "add_user_to_organization" ->
            RespondChecked(o, "Error adding user to organization",
                           "User added to organization successfully!")
      [] t = "remove_user_from_organization" ->
            RespondChecked(o, "Error removing user from organization",
                           "User removed from organization successfully!")
      [] t = "get_dataset_stats" ->
            RespondUnchecked(o, "Error: Dataset not found or invalid ID", "stats")
      [] t = "get_organization_details" ->
            RespondUnchecked(o, "Error: Organization not found", "details")
      [] t = "preview_resource" -> RespondPreviewResource(o)

\* the fetch() a tool issues
Request(t, url, method, auth) ==
    [tool |-> t, url |-> url, action |-> ActionOf(t), method |-> method, auth |-> auth]

SessionInit ==
    /\ variant \in Variants
    /\ envApiUrl \in {Undefined, "https://env.example"}
    /\ state = [apiKey |-> Undefined, apiUrl |-> Undefined]
    /\ initApiUrl = getApiUrl(state, envApiUrl)
    /\ issued = <<>>
    /\ called = "none"
    /\ result = NoResult

\* the argument values the tools are called with
ApiKeys == {"", "key1", "key2"}
ApiUrls == {Undefined, "", "https://portal.example"}

\* set_api_key: setState({apiKey: api_key, apiUrl: api_url || <current url>})
set_api_key(api_key, api_url) ==
    /\ "set_api_key" \in ToolsOf(variant)
    /\ state' = [apiKey |-> api_key,
                 apiUrl |-> Or(api_url, HandlerApiUrl(variant, state, envApiUrl, initApiUrl))]
    /\ called' = "set_api_key"
    /\ result' = Text("API key configured successfully!")
    /\ issued' = <<>>
    /\ UNCHANGED <<variant, envApiUrl, initApiUrl, keyVars, cacheVars, routerVars, compareVars, previewVars, searchVars, fetchVars, rpcVars, relatedVars, clientVars, csvVars, tableVars>>

\* A gated handler: the gate, then one fetch() carrying the session key.
\* Gate, endpoint and headers are evaluated before the first await; what runs
\* after it reads only the response and the handler's locals.
GatedCall(t, method, o) ==
    /\ t \in ToolsOf(variant)
    /\ IF ~Authenticated(state)
       THEN /\ result' = AuthRequired
            /\ issued' = <<>>
       ELSE /\ issued' = <<Request(t, HandlerApiUrl(variant, state, envApiUrl, initApiUrl),
                                  method, state.apiKey)>>
            /\ result' = Respond(t, o)
    /\ called' = t
    /\ UNCHANGED <<variant, envApiUrl, state, initApiUrl, keyVars, cacheVars, routerVars, compareVars, previewVars, searchVars, fetchVars, rpcVars, relatedVars, clientVars, csvVars, tableVars>>

\* an ungated handler that sends the session key all the same
OpenCallWithKey(t, o) ==
    /\ t \in ToolsOf(variant)
    /\ issued' = <<Request(t, HandlerApiUrl(variant, state, envApiUrl, initApiUrl),
                          "GET", state.apiKey)>>
    /\ result' = Respond(t, o)
    /\ called' = t
    /\ UNCHANGED <<variant, envApiUrl, state, initApiUrl, keyVars, cacheVars, routerVars, compareVars, previewVars, searchVars, fetchVars, rpcVars, relatedVars, clientVars, csvVars, tableVars>>

\* An ungated handler: one fetch() without an Authorization header.
OpenCall(t, o) ==
    /\ t \in ToolsOf(variant)
    /\ issued' = <<Request(t, HandlerApiUrl(variant, state, envApiUrl, initApiUrl),
                          "GET", Undefined)>>
    /\ result' = Respond(t, o)
    /\ called' = t
    /\ UNCHANGED <<variant, envApiUrl, state, initApiUrl, keyVars, cacheVars, routerVars, compareVars, previewVars, searchVars, fetchVars, rpcVars, relatedVars, clientVars, csvVars, tableVars>>

\* fetch(url) with no init, from getApiUrl()
PlainFetch(t, action) ==
    [tool |-> t, url |-> HandlerApiUrl(variant, state, envApiUrl, initApiUrl),
     action |-> action, method |-> "GET", auth |-> Undefined]

\* An ungated handler of several fetch() calls, none with headers.
OpenCalls(t, fetches, res) ==
    /\ t \in ToolsOf(variant)
    /\ issued' = fetches
    /\ result' = res
    /\ called' = t
    /\ UNCHANGED <<variant, envApiUrl, state, initApiUrl, keyVars, cacheVars, routerVars, compareVars, previewVars, searchVars, fetchVars, rpcVars, relatedVars, clientVars, csvVars, tableVars>>

\* get_related_datasets of a source that has an organization: the source's
\* package_show and, when it is found, one package_search
SessionRelatedDatasets(o, o2) ==
    LET t == "get_related_datasets" IN
    OpenCalls(t,
        IF RespondUnchecked(o, "", "source") = Text("source")
        THEN <<PlainFetch(t, "package_show"), PlainFetch(t, "package_search")>>
        ELSE <<PlainFetch(t, "package_show")>>,
        RespondRelatedDatasets(o, o2))

\* compare_datasets of two ids: one package_show each
SessionCompareDatasets(o, o2) ==
    LET t == "compare_datasets" IN
    OpenCalls(t, <<PlainFetch(t, "package_show"), PlainFetch(t, "package_show")>>,
              RespondCompareDatasets(o, o2))

create_dataset(o) == GatedCall("create_dataset", "POST", o)
update_dataset(o) == GatedCall("update_dataset", "POST", o)
create_resource(o) == GatedCall("create_resource", "POST", o)
create_organization(o) == GatedCall("create_organization", "POST", o)
update_organization(o) == GatedCall("update_organization", "POST", o)
add_user_to_organization(o) == GatedCall("add_user_to_organization", "POST", o)
remove_user_from_organization(o) == GatedCall("remove_user_from_organization", "POST", o)
list_organizations(o) == GatedCall("list_organizations", "GET", o)
search(o) == OpenCall("search", o)
fetch(o) == OpenCall("fetch", o)
get_dataset_stats(o) == OpenCall("get_dataset_stats", o)
get_organization_details(o) == OpenCall("get_organization_details", o)
preview_resource(o) == OpenCall("preview_resource", o)

SessionNext ==
    \/ \E k \in ApiKeys, u \in ApiUrls : set_api_key(k, u)
    \/ \E o \in Outcomes : create_dataset(o)
    \/ \E o \in Outcomes : update_dataset(o)
    \/ \E o \in Outcomes : create_resource(o)
    \/ \E o \in Outcomes : create_organization(o)
    \/ \E o \in Outcomes : update_organization(o)
    \/ \E o \in Outcomes : add_user_to_organization(o)
    \/ \E o \in Outcomes : remove_user_from_organization(o)
    \/ \E o \in Outcomes : list_organizations(o)
    \/ \E o \in Outcomes : search(o)
    \/ \E o \in Outcomes : fetch(o)
    \/ \E o \in Outcomes : get_dataset_stats(o)
    \/ \E o \in Outcomes : get_organization_details(o)
    \/ \E o \in Outcomes : preview_resource(o)
    \/ \E o \in UncheckedOutcomes, o2 \in UncheckedOutcomes : SessionRelatedDatasets(o, o2)
    \/ \E o \in UncheckedOutcomes, o2 \in UncheckedOutcomes : SessionCompareDatasets(o, o2)

\* ================================= organization-scoped router and tools
\* src/unnamed/part_001 and src/src/index.ts 423-786.  The worker's fetch()
\* writes a module-level variable from the request path; the tools read the
\* variable each time they build an upstream URL, before and after an await.

BASE_URL == "https://api.cloud.portaljs.com"

RouterVariants == {"part_001", "index"}

\* A pathname is the sequence of its segments: "/@a/sse" is <<"@a", "sse">>.
OrgSegments == {"@a", "@b"}

Pathnames ==
    {<<o, "sse">> : o \in OrgSegments}
        \cup {<<o, "sse", "message">> : o \in OrgSegments}
        \cup {<<"sse">>, <<"sse", "message">>, <<"@a", "mcp">>, <<"health">>}

NoOrg == <<"<null>">>

\* pathname.startsWith('/@') && pathname.includes('/sse'), then
\* pathname.substring(1, pathname.indexOf('/sse')): the segments before the
\* first "sse"
extractOrgFromPath(pathname) ==
    IF Len(pathname) > 0 /\ pathname[1] \in OrgSegments
            /\ \E i \in 1..Len(pathname) : pathname[i] = "sse"
    THEN LET sseIndex == CHOOSE i \in 1..Len(pathname) :
                            /\ pathname[i] = "sse"
                            /\ \A j \in 1..(i - 1) : pathname[j] # "sse"
         IN  SubSeq(pathname, 1, sseIndex - 1)
    ELSE NoOrg

\* `${BASE_URL}/${orgPath}`; the default route's mount is the empty path
OrgApiUrl(orgPath) == <<BASE_URL>> \o orgPath

RouterTools == {"search", "get", "preview_data_table"}

\* the CKAN action of a tool's first fetch()
FirstAction(tool) ==
    CASE tool = "search" -> "package_search"
      [] tool = "get" -> "package_show"
      [] tool = "preview_data_table" -> "resource_show"

NoFetch == [conn |-> NoOrg, url |-> <<>>, action |-> "none"]

MaxInvocations == 2

RouterInit ==
    /\ routerVariant \in RouterVariants
    /\ current_api_url = <<BASE_URL>>
    /\ connections = {}
    /\ invocations = {}
    /\ lastFetch = NoFetch
    /\ routed = "none"

\* MyMCP.serveSSE(`/${mount}/sse`).fetch(request): GET .../sse opens a
\* connection, POST .../sse/message hands a tool call of that connection to
\* the agent, whose handler runs later
serveSSE(mount, pathname, tool) ==
    IF pathname = mount \o <<"sse">>
    THEN /\ connections' = connections \cup {mount}
         /\ routed' = "connected"
         /\ UNCHANGED invocations
    ELSE IF pathname = mount \o <<"sse", "message">> /\ mount \in connections
              /\ Cardinality(invocations) < MaxInvocations
    THEN /\ invocations' = invocations \cup
                {[conn |-> mount, tool |-> tool, pc |-> "called"]}
         /\ routed' = "accepted"
         /\ UNCHANGED connections
    ELSE /\ routed' = "rejected"
         /\ UNCHANGED <<connections, invocations>>

\* export default { fetch(request, env, ctx) }
RouterFetch(pathname, tool) ==
    /\ LET orgPath == extractOrgFromPath(pathname) IN
       IF orgPath # NoOrg
       THEN /\ current_api_url' = OrgApiUrl(orgPath)
            /\ serveSSE(orgPath, pathname, tool)
       ELSE IF routerVariant = "index"
       THEN /\ current_api_url' = <<BASE_URL>>
            /\ IF pathname \in {<<"sse">>, <<"sse", "message">>}
               THEN serveSSE(<<>>, pathname, tool)
               ELSE /\ routed' = "404"
                    /\ UNCHANGED <<connections, invocations>>
       ELSE /\ routed' = "404"
            /\ UNCHANGED <<current_api_url, connections, invocations>>
    /\ UNCHANGED <<routerVariant, lastFetch>>
    /\ UNCHANGED <<sessionVars, keyVars, cacheVars, compareVars, previewVars, searchVars, fetchVars, rpcVars, relatedVars, clientVars, csvVars, tableVars>>

\* a handler starts: it builds its endpoint from the module variable and
\* suspends at await fetch(endpoint)
ToolCall(inv) ==
    /\ inv \in invocations
    /\ inv.pc = "called"
    /\ lastFetch' = [conn |-> inv.conn, url |-> current_api_url,
                     action |-> FirstAction(inv.tool)]
    /\ invocations' = (invocations \ {inv}) \cup {[inv EXCEPT !.pc = "awaiting"]}
    /\ UNCHANGED <<routerVariant, current_api_url, connections, routed>>
    /\ UNCHANGED <<sessionVars, keyVars, cacheVars, compareVars, previewVars, searchVars, fetchVars, rpcVars, relatedVars, clientVars, csvVars, tableVars>>

\* the first fetch() settles.  search and get return; preview_data_table,
\* when the resource was found with a url, builds the datastore_search
\* endpoint from the module variable and suspends again
ToolResume(inv, found) ==
    /\ inv \in invocations
    /\ inv.pc = "awaiting"
    /\ IF inv.tool = "preview_data_table" /\ found
       THEN /\ lastFetch' = [conn |-> inv.conn, url |-> current_api_url,
                             action |-> "datastore_search"]
            /\ invocations' = (invocations \ {inv})
                                \cup {[inv EXCEPT !.pc = "awaiting_datastore"]}
       ELSE /\ invocations' = invocations \ {inv}
            /\ UNCHANGED lastFetch
    /\ UNCHANGED <<routerVariant, current_api_url, connections, routed>>
    /\ UNCHANGED <<sessionVars, keyVars, cacheVars, compareVars, previewVars, searchVars, fetchVars, rpcVars, relatedVars, clientVars, csvVars, tableVars>>

\* datastore_search settles and preview_data_table returns; the download of
\* the resource's own url that may follow is no call to the portal's API
ToolReturn(inv) ==
    /\ inv \in invocations
    /\ inv.pc = "awaiting_datastore"
    /\ invocations' = invocations \ {inv}
    /\ UNCHANGED <<routerVariant, current_api_url, connections, lastFetch, routed>>
    /\ UNCHANGED <<sessionVars, keyVars, cacheVars, compareVars, previewVars, searchVars, fetchVars, rpcVars, relatedVars, clientVars, csvVars, tableVars>>

RouterNext ==
    \/ \E pathname \in Pathnames, tool \in RouterTools : RouterFetch(pathname, tool)
    \/ \E inv \in invocations : ToolCall(inv)
    \/ \E inv \in invocations, found \in BOOLEAN : ToolResume(inv, found)
    \/ \E inv \in invocations : ToolReturn(inv)

\* ======================================================= compare_datasets
\* src/unnamed/part_002 1232-1276

DatasetIds == {"d1", "d2"}

MaxIds == 6

IdLists == UNION {[1..n -> DatasetIds] : n \in 0..MaxIds}

\* dataset_ids.slice(0, 5)
SliceEnd == 5

Slice(ids) == SubSeq(ids, 1, IF Len(ids) < SliceEnd THEN Len(ids) ELSE SliceEnd)

\* the entries of the comparison; a property the handler does not set is
\* Undefined
NotFound(id) == [id |-> id, error |-> "Not found", name |-> Undefined]
Populated(id) == [id |-> Undefined, error |-> Undefined, name |-> id]
NoEntry == [id |-> Undefined, error |-> Undefined, name |-> Undefined]

Pending == [settled |-> "pending", value |-> NoEntry]
Rejected == [settled |-> "rejected", value |-> NoEntry]
Fulfilled(entry) == [settled |-> "fulfilled", value |-> entry]

\* the async callback of idsToCompare.map(), from the response of its fetch
CompareOne(id, o) ==
    IF ~o.net THEN Rejected
    ELSE IF ~o.parsable THEN Rejected
    ELSE IF ~o.success \/ o.res # "value" THEN Fulfilled(NotFound(id))
    ELSE Fulfilled(Populated(id))

NotCalled == <<"<not called>">>

CompareInit ==
    /\ dataset_ids = NotCalled
    /\ promises = <<>>
    /\ comparison = NoResult

\* the handler up to await Promise.all(...): every callback has run up to
\* its await fetch(endpoint)
compare_datasets(ids) ==
    /\ dataset_ids = NotCalled
    /\ dataset_ids' = ids
    /\ promises' = [i \in 1..Len(Slice(ids)) |-> Pending]
    /\ UNCHANGED comparison
    /\ UNCHANGED <<sessionVars, keyVars, cacheVars, routerVars, previewVars, searchVars, fetchVars, rpcVars, relatedVars, clientVars, csvVars, tableVars>>

\* a callback's fetch settles and the callback runs to its end
CompareResume(i, o) ==
    /\ i \in DOMAIN promises
    /\ promises[i] = Pending
    /\ promises' = [promises EXCEPT ![i] = CompareOne(dataset_ids[i], o)]
    /\ UNCHANGED <<dataset_ids, comparison>>
    /\ UNCHANGED <<sessionVars, keyVars, cacheVars, routerVars, previewVars, searchVars, fetchVars, rpcVars, relatedVars, clientVars, csvVars, tableVars>>

\* Promise.all settles: it rejects as soon as one promise has rejected and
\* the handler, having no catch, throws; it fulfils once every promise has
\* and the handler returns the entries as one text
PromiseAll ==
    /\ dataset_ids # NotCalled
    /\ comparison = NoResult
    /\ IF \E i \in DOMAIN promises : promises[i] = Rejected
       THEN comparison' = Thrown
       ELSE /\ \A i \in DOMAIN promises : promises[i].settled = "fulfilled"
            /\ comparison' =
                Text([i \in DOMAIN promises |-> promises[i].value])
    /\ UNCHANGED <<dataset_ids, promises>>
    /\ UNCHANGED <<sessionVars, keyVars, cacheVars, routerVars, previewVars, searchVars, fetchVars, rpcVars, relatedVars, clientVars, csvVars, tableVars>>

CompareNext ==
    \/ \E ids \in IdLists : compare_datasets(ids)
    \/ \E i \in 1..SliceEnd, o \in Outcomes : CompareResume(i, o)
    \/ PromiseAll

\* ===================================================== preview_data_table
\* src/unnamed/part_001 198-368 (the same handler is in src/src/index.ts);
\* the handler of src/src/index.ts 185-355 also looks up the resource's
\* dataset when the agent is scoped to an organization (275-288).
\* An array is the sequence of its elements; a record of a data source is
\* known by its number.

\* Array.prototype.slice(start, end): a negative index counts from the end
RelativeIndex(k, len) ==
    IF k < 0 THEN (IF len + k < 0 THEN 0 ELSE len + k)
    ELSE (IF k > len THEN len ELSE k)

JsSlice(s, start, end) ==
    SubSeq(s, RelativeIndex(start, Len(s)) + 1, RelativeIndex(end, Len(s)))

\* Math.min(limit, 100)
MaxLimit(limit) == IF limit < 100 THEN limit ELSE 100

MaxRecords == 102

\* the sizes of the record lists an upstream may send
RecordCounts == {0, 1, 2, 3, MaxRecords}

Records(n) == [i \in 1..n |-> i]

\* limit: z.number().optional().default(10)
Limits == {-2, -1, 0, 1, 2, 10, 100, 500}

\* result.url and result.format of resource_show
ResourceUrls == {"https://files.example/data.csv", "https://files.example/data"}
EndsWithCsv(url) == url = "https://files.example/data.csv"
ResourceFormats == {"", "CSV", "json", "xls"}
ToLowerCase(f) == IF f = "CSV" THEN "csv" ELSE f

\* what resource_show answers: fetch rejects, the body is no JSON,
\* success is false, result has no url, or the resource with url and format
ResourceShows ==
    {[kind |-> k, url |-> "", format |-> ""] :
        k \in {"network_error", "unparsable", "no_success", "no_url"}}
    \cup {[kind |-> "found", url |-> u, format |-> f] :
            u \in ResourceUrls, f \in ResourceFormats}

\* what datastore_search answers: records is absent or is an array
DatastoreSearches ==
    {[kind |-> k, success |-> FALSE, hasRecords |-> FALSE, records |-> <<>>] :
        k \in {"network_error", "unparsable"}}
    \cup {[kind |-> "envelope", success |-> s, hasRecords |-> FALSE, records |-> <<>>] :
            s \in BOOLEAN}
    \cup {[kind |-> "envelope", success |-> s, hasRecords |-> TRUE, records |-> Records(n)] :
            s \in BOOLEAN, n \in RecordCounts}

\* env.ORGANIZATION of the agent: not set (as in part_001) or a name
Organizations == {Undefined, "org-a"}

\* what package_show answers: fetch rejects, the body is no JSON, or an
\* envelope; org is result?.organization?.name
PackageShows ==
    {[kind |-> k, success |-> FALSE, org |-> Undefined] :
        k \in {"network_error", "unparsable"}}
    \cup {[kind |-> "envelope", success |-> FALSE, org |-> Undefined]}
    \cup {[kind |-> "envelope", success |-> TRUE, org |-> o] :
            o \in {Undefined, "org-a", "org-b"}}

NoPackage == [kind |-> "not_asked", success |-> FALSE, org |-> Undefined]

\* packageData.success && packageData.result?.organization?.name !== organization
OutsideOrganization(ps, organization) == ps.success /\ ps.org # organization

NotQueried == [kind |-> "not_queried", success |-> FALSE, hasRecords |-> FALSE, records |-> <<>>]

\* the body of the resource's url: a JSON array, one JSON object, or text
\* that is no JSON and has lines non-blank lines
Bodies ==
    {[json |-> "array", items |-> Records(n), lines |-> Records(1)] : n \in RecordCounts}
    \cup {[json |-> "object", items |-> <<>>, lines |-> Records(1)]}
    \cup {[json |-> "invalid", items |-> <<>>, lines |-> Records(n)] : n \in RecordCounts}

ContentTypes == {"", "application/json", "text/csv"}
\* contentType.includes('json') taken as never true
IncludesJsonNever(ct) == FALSE
IncludesJson(ct) == ct = "application/json"
IncludesCsv(ct) == ct = "text/csv"

Downloads ==
    {[net |-> FALSE, ok |-> FALSE, contentType |-> "", body |-> b] :
        b \in {[json |-> "invalid", items |-> <<>>, lines |-> <<>>]}}
    \cup {[net |-> TRUE, ok |-> FALSE, contentType |-> "", body |-> b] :
        b \in {[json |-> "invalid", items |-> <<>>, lines |-> <<>>]}}
    \cup {[net |-> TRUE, ok |-> TRUE, contentType |-> ct, body |-> b] :
        ct \in ContentTypes, b \in Bodies}

\* parseCSV(text, rowLimit).records: the non-blank lines after the header
\* line, lines.slice(1, rowLimit + 1)
parseCSV(lines, rowLimit) ==
    IF Len(lines) = 0 THEN <<>> ELSE JsSlice(lines, 1, rowLimit + 1)

\* what the handler returns: buildTable's text is known by its source and
\* the number of its record rows
PreviewError(message) == Text([source |-> "none", rows |-> 0, message |-> message])

buildTable(records, source) ==
    IF Len(records) = 0
    THEN Text([source |-> "none", rows |-> 0, message |-> "No data found in this resource."])
    ELSE Text([source |-> source, rows |-> Len(records), message |-> ""])

PreviewInit ==
    /\ pvPc = "idle"
    /\ pvLimit = 10
    /\ pvResource = [url |-> "", format |-> ""]
    /\ pvDatastore = NotQueried
    /\ pvFetched = <<>>
    /\ pvResult = NoResult
    /\ pvOrganization \in Organizations
    /\ pvPackage = NoPackage

\* the handler up to await fetch(resourceEndpoint)
preview_data_table(limit) ==
    /\ pvPc \in {"idle", "returned"}
    /\ pvLimit' = limit
    /\ pvResource' = [url |-> "", format |-> ""]
    /\ pvDatastore' = NotQueried
    /\ pvFetched' = <<"resource_show">>
    /\ pvResult' = NoResult
    /\ pvPackage' = NoPackage
    /\ pvPc' = "resource_show"
    /\ UNCHANGED pvOrganization
    /\ UNCHANGED <<sessionVars, keyVars, cacheVars, routerVars, compareVars, searchVars, fetchVars, rpcVars, relatedVars, clientVars, csvVars, tableVars>>

\* resource_show settles; with a url the handler asks for the resource's
\* dataset when it is scoped to an organization, and otherwise asks the
\* DataStore for maxLimit rows
PreviewResourceShow(rs) ==
    /\ pvPc = "resource_show"
    /\ IF rs.kind = "found"
       THEN /\ pvResource' = [url |-> rs.url, format |-> ToLowerCase(rs.format)]
            /\ IF Truthy(pvOrganization)
               THEN /\ pvFetched' = Append(pvFetched, "package_show")
                    /\ pvPc' = "package_show"
               ELSE /\ pvFetched' = Append(pvFetched, "datastore_search")
                    /\ pvPc' = "datastore_search"
            /\ UNCHANGED pvResult
       ELSE /\ pvResult' =
                IF rs.kind \in {"network_error", "unparsable"}
                THEN PreviewError("Error: Failed to preview data.")
                ELSE PreviewError("Error: Resource not found or has no accessible URL.")
            /\ pvPc' = "returned"
            /\ UNCHANGED <<pvResource, pvFetched>>
    /\ UNCHANGED <<pvLimit, pvDatastore, pvOrganization, pvPackage>>
    /\ UNCHANGED <<sessionVars, keyVars, cacheVars, routerVars, compareVars, searchVars, fetchVars, rpcVars, relatedVars, clientVars, csvVars, tableVars>>

\* package_show settles (src/src/index.ts 277-288): a dataset of another
\* organization ends the handler, anything else goes on to the DataStore
PreviewPackageShow(ps) ==
    /\ pvPc = "package_show"
    /\ pvPackage' = ps
    /\ IF ps.kind \in {"network_error", "unparsable"}
       THEN /\ pvResult' = PreviewError("Error: Failed to preview data.")
            /\ pvPc' = "returned"
            /\ UNCHANGED pvFetched
       ELSE IF OutsideOrganization(ps, pvOrganization)
       THEN /\ pvResult' = PreviewError("Error: Resource not found in organization")
            /\ pvPc' = "returned"
            /\ UNCHANGED pvFetched
       ELSE /\ pvFetched' = Append(pvFetched, "datastore_search")
            /\ pvPc' = "datastore_search"
            /\ UNCHANGED pvResult
    /\ UNCHANGED <<pvLimit, pvResource, pvDatastore, pvOrganization>>
    /\ UNCHANGED <<sessionVars, keyVars, cacheVars, routerVars, compareVars, searchVars, fetchVars, rpcVars, relatedVars, clientVars, csvVars, tableVars>>

\* datastore_search settles: the records of a success envelope that has a
\* records array are rendered as they came; anything else falls through to
\* await fetch(resourceUrl)
PreviewDatastore(ds) ==
    /\ pvPc = "datastore_search"
    /\ pvDatastore' = ds
    /\ IF ds.kind = "envelope" /\ ds.success /\ ds.hasRecords
       THEN /\ pvResult' = buildTable(ds.records, "DataStore")
            /\ pvPc' = "returned"
            /\ UNCHANGED pvFetched
       ELSE /\ pvFetched' = Append(pvFetched, "resource_url")
            /\ pvPc' = "download"
            /\ UNCHANGED pvResult
    /\ UNCHANGED <<pvLimit, pvResource, pvOrganization, pvPackage>>
    /\ UNCHANGED <<sessionVars, keyVars, cacheVars, routerVars, compareVars, searchVars, fetchVars, rpcVars, relatedVars, clientVars, csvVars, tableVars>>

\* the download settles and the handler returns
PreviewDownload(dl) ==
    /\ pvPc = "download"
    /\ pvResult' =
        IF ~dl.net THEN PreviewError("Error: Failed to preview data.")
        ELSE IF ~dl.ok THEN PreviewError("Error: Failed to fetch resource data")
        ELSE IF pvResource.format = "json" \/ IncludesJson(dl.contentType)
        THEN IF dl.body.json = "invalid"
             THEN PreviewError("Error: Failed to preview data.")
             ELSE LET array == IF dl.body.json = "array" THEN dl.body.items
                               ELSE Records(1)
                  IN  buildTable(JsSlice(array, 0, MaxLimit(pvLimit)),
                                 "Direct fetch (JSON)")
        ELSE IF pvResource.format = "csv" \/ IncludesCsv(dl.contentType)
                    \/ EndsWithCsv(pvResource.url)
        THEN buildTable(parseCSV(dl.body.lines, MaxLimit(pvLimit)),
                        "Direct fetch (CSV)")
        ELSE PreviewError("Error: Unsupported format")
    /\ pvPc' = "returned"
    /\ UNCHANGED <<pvLimit, pvResource, pvDatastore, pvFetched, pvOrganization, pvPackage>>
    /\ UNCHANGED <<sessionVars, keyVars, cacheVars, routerVars, compareVars, searchVars, fetchVars, rpcVars, relatedVars, clientVars, csvVars, tableVars>>

PreviewNext ==
    \/ \E limit \in Limits : preview_data_table(limit)
    \/ \E rs \in ResourceShows : PreviewResourceShow(rs)
    \/ \E ps \in PackageShows : PreviewPackageShow(ps)
    \/ \E ds \in DatastoreSearches : PreviewDatastore(ds)
    \/ \E dl \in Downloads : PreviewDownload(dl)

\* =========================================================== handleSearch
\* src/unnamed/part_002 264-329 and src/unnamed/part_000 224-283.  An entry
\* of results is known by its type.

\* args.type and args.limit as the caller sent them
SearchTypes == {Undefined, "all", "datasets", "organizations", "groups", "resources"}
SearchLimits == {-1, 0, 1, 2, 3, 4, 5}
SearchArgs ==
    {[type |-> t, hasLimit |-> FALSE, limit |-> 0] : t \in SearchTypes}
    \cup {[type |-> t, hasLimit |-> TRUE, limit |-> l] :
            t \in SearchTypes, l \in SearchLimits}

\* args.limit || 10: an absent limit and 0 are falsy
DefaultLimit == 10
LimitOf(args) ==
    IF ~args.hasLimit THEN DefaultLimit
    ELSE IF args.limit = 0 THEN DefaultLimit
    ELSE args.limit

\* args.type || "all"
TypeOf(args) == Or(args.type, "all")

\* Math.ceil(limit / 2) and Math.floor(limit / 2)
CeilHalf(n) == -((-n) \div 2)
FloorHalf(n) == n \div 2

datasetsLimit(args) ==
    IF TypeOf(args) = "all" THEN CeilHalf(LimitOf(args)) ELSE LimitOf(args)
orgsLimit(args) ==
    IF TypeOf(args) = "all" THEN FloorHalf(LimitOf(args)) ELSE LimitOf(args)

MaxItems == 6

\* what makeRequest gives for package_search: it throws, or returns the
\* result, whose results field is absent or an array of some length
PackageSearches ==
    {[thrown |-> t, hasResults |-> FALSE, count |-> 0] : t \in BOOLEAN}
    \cup {[thrown |-> FALSE, hasResults |-> TRUE, count |-> n] : n \in 0..MaxItems}

\* what makeRequest gives for organization_list: it throws, or returns the
\* empty mapping it puts for an absent result, or an array of organizations,
\* each matching the query or not
MaxOrgs == 3
OrganizationLists ==
    {[thrown |-> t, isArray |-> FALSE, orgs |-> <<>>] : t \in BOOLEAN}
    \cup {[thrown |-> FALSE, isArray |-> TRUE, orgs |-> l] :
            l \in UNION {[1..n -> BOOLEAN] : n \in 0..MaxOrgs}}
    \cup {[thrown |-> FALSE, isArray |-> TRUE, orgs |-> [i \in 1..MaxItems |-> TRUE]]}

\* orgs.filter(org => display_name or description includes the query)
Matching(org) == org
FilterOrgs(orgs) == SelectSeq(orgs, Matching)

NoReturnYet == [thrown |-> FALSE, returned |-> FALSE, total_results |-> 0]
SearchThrown == [thrown |-> TRUE, returned |-> FALSE, total_results |-> 0]
SearchReturned(results) ==
    [thrown |-> FALSE, returned |-> TRUE, total_results |-> Len(results)]

SearchInit ==
    /\ hsArgs = [type |-> Undefined, hasLimit |-> FALSE, limit |-> 0]
    /\ hsPc = "idle"
    /\ hsLimits = [datasets |-> 0, orgs |-> 0]
    /\ hsResults = <<>>
    /\ hsReturn = NoReturnYet

\* an organizations branch taken for every type but "datasets"
SearchAfterDatasetsAny(args, results) ==
    IF TypeOf(args) # "datasets"
    THEN /\ hsPc' = "organization_list"
         /\ hsResults' = results
         /\ hsReturn' = NoReturnYet
    ELSE /\ hsPc' = "returned"
         /\ hsResults' = results
         /\ hsReturn' = SearchReturned(results)

\* the organizations branch and the return, once results holds the datasets
SearchAfterDatasets(args, results) ==
    IF TypeOf(args) \in {"organizations", "all"}
    THEN /\ hsPc' = "organization_list"
         /\ hsResults' = results
         /\ hsReturn' = NoReturnYet
    ELSE /\ hsPc' = "returned"
         /\ hsResults' = results
         /\ hsReturn' = SearchReturned(results)

\* handleSearch up to its first await
handleSearch(args) ==
    /\ hsPc \in {"idle", "returned"}
    /\ hsArgs' = args
    /\ hsLimits' = [datasets |-> datasetsLimit(args), orgs |-> orgsLimit(args)]
    /\ IF TypeOf(args) \in {"datasets", "all"}
       THEN /\ hsPc' = "package_search"
            /\ hsResults' = <<>>
            /\ hsReturn' = NoReturnYet
       ELSE SearchAfterDatasets(args, <<>>)
    /\ UNCHANGED <<sessionVars, keyVars, cacheVars, routerVars, compareVars, previewVars, fetchVars, rpcVars, relatedVars, clientVars, csvVars, tableVars>>

\* package_search settles: every item of datasets.results becomes an entry
SearchDatasets(r) ==
    /\ hsPc = "package_search"
    /\ IF r.thrown
       THEN /\ hsPc' = "returned"
            /\ hsReturn' = SearchThrown
            /\ UNCHANGED hsResults
       ELSE SearchAfterDatasets(hsArgs,
                IF r.hasResults
                THEN hsResults \o [i \in 1..r.count |-> "dataset"]
                ELSE hsResults)
    /\ UNCHANGED <<hsArgs, hsLimits>>
    /\ UNCHANGED <<sessionVars, keyVars, cacheVars, routerVars, compareVars, previewVars, fetchVars, rpcVars, relatedVars, clientVars, csvVars, tableVars>>

\* organization_list settles: the matching organizations, cut by
\* slice(0, orgsLimit), become entries; orgs.filter of a value that is no
\* array throws
SearchOrganizations(r) ==
    /\ hsPc = "organization_list"
    /\ hsPc' = "returned"
    /\ IF r.thrown \/ ~r.isArray
       THEN /\ hsReturn' = SearchThrown
            /\ UNCHANGED hsResults
       ELSE LET filteredOrgs == JsSlice(FilterOrgs(r.orgs), 0, hsLimits.orgs)
                results == hsResults \o [i \in 1..Len(filteredOrgs) |-> "organization"]
            IN  /\ hsResults' = results
                /\ hsReturn' = SearchReturned(results)
    /\ UNCHANGED <<hsArgs, hsLimits>>
    /\ UNCHANGED <<sessionVars, keyVars, cacheVars, routerVars, compareVars, previewVars, fetchVars, rpcVars, relatedVars, clientVars, csvVars, tableVars>>

SearchNext ==
    \/ \E args \in SearchArgs : handleSearch(args)
    \/ \E r \in PackageSearches : SearchDatasets(r)
    \/ \E r \in OrganizationLists : SearchOrganizations(r)

\* ============================================================ handleFetch
\* src/unnamed/part_000 289-347, src/unnamed/part_002 331-432 and the get
\* tool of src/unnamed/part_001 113-194.

\* JavaScript values of the fields of an entity
JsUndefined == [t |-> "undefined", v |-> <<>>]
JsNull == [t |-> "null", v |-> <<>>]
JsString(x) == [t |-> "string", v |-> <<x>>]
JsArray(a) == [t |-> "array", v |-> a]

IsTruthy(x) == x.t = "array" \/ (x.t = "string" /\ x # JsString(""))

\* x || null
OrNull(x) == IF IsTruthy(x) THEN x ELSE JsNull

\* ensureArray(value), Array.isArray(value) ? value : []
ensureArray(value) == IF value.t = "array" THEN value ELSE JsArray(<<>>)

FetchVariants == {"part_000", "part_002", "part_001"}

ItemTypes == {Undefined, "dataset", "organization", "group", "resource"}

\* the entities an upstream may send
Entities ==
    [id : {JsUndefined, JsString("d1")},
     name : {JsUndefined, JsNull, JsString("n1")},
     tags : {JsUndefined, JsNull, JsString("t1"), JsArray(<<>>), JsArray(<<"t1">>)},
     resources : {JsUndefined, JsArray(<<"r1">>)},
     groups : {JsUndefined, JsArray(<<"g1">>)},
     license_title : {JsUndefined, JsString("MIT")},
     maintainer : {JsUndefined, JsString("m1")},
     author : {JsUndefined, JsString(""), JsString("a1")}]

NoEntity ==
    [id |-> JsUndefined, name |-> JsUndefined, tags |-> JsUndefined,
     resources |-> JsUndefined, groups |-> JsUndefined,
     license_title |-> JsUndefined, maintainer |-> JsUndefined,
     author |-> JsUndefined]

\* what the upstream call gives: a failure (makeRequest throws; in get a
\* non-OK status or success=false), no result, or an entity
FetchPayloads ==
    {[kind |-> k, entity |-> NoEntity] : k \in {"failed", "no_result"}}
    \cup {[kind |-> "entity", entity |-> e] : e \in Entities}

NoPayload == [kind |-> "none", entity |-> NoEntity]

\* the record of a dataset; a property the handler does not set is undefined
NoRecord ==
    [id |-> JsUndefined, name |-> JsUndefined, tags |-> JsUndefined,
     resources |-> JsUndefined, groups |-> JsUndefined,
     license |-> JsUndefined, maintainer |-> JsUndefined, author |-> JsUndefined]

\* part_002 and the get tool of part_001
FormatWithDefaults(itemType, r) ==
    IF itemType = "dataset"
    THEN [id |-> r.id, name |-> r.name,
          tags |-> ensureArray(r.tags),
          resources |-> ensureArray(r.resources),
          groups |-> ensureArray(r.groups),
          license |-> OrNull(r.license_title),
          maintainer |-> OrNull(r.maintainer),
          author |-> OrNull(r.author)]
    ELSE [NoRecord EXCEPT !.id = r.id, !.name = r.name]

\* part_000
FormatAsIs(itemType, r) ==
    IF itemType = "dataset"
    THEN [id |-> r.id, name |-> r.name,
          tags |-> r.tags, resources |-> r.resources, groups |-> r.groups,
          license |-> r.license_title,
          maintainer |-> r.maintainer,
          author |-> r.author]
    ELSE [NoRecord EXCEPT !.id = r.id, !.name = r.name]

FetchOutcome(outcome, itemType, record) ==
    [outcome |-> outcome, type |-> itemType, record |-> record]

NoFetchReturn == FetchOutcome("none", "dataset", NoRecord)

\* only part_002 has if (!result.name) throw
NameChecked(v) == v = "part_002"

\* the handler after its await
FetchResult(v, itemType, p) ==
    IF p.kind = "failed" THEN FetchOutcome("upstream_error", itemType, NoRecord)
    ELSE IF p.kind = "no_result"
    THEN FetchOutcome(IF v = "part_001" THEN "missing_result" ELSE "not_found",
                      itemType, NoRecord)
    ELSE IF ~IsTruthy(p.entity.id) THEN FetchOutcome("not_found", itemType, NoRecord)
    ELSE IF NameChecked(v) /\ ~IsTruthy(p.entity.name)
    THEN FetchOutcome("malformed", itemType, NoRecord)
    ELSE FetchOutcome("record", itemType,
            IF v = "part_000" THEN FormatAsIs(itemType, p.entity)
            ELSE FormatWithDefaults(itemType, p.entity))

FetchInit ==
    /\ fhVariant \in FetchVariants
    /\ fhType = "dataset"
    /\ fhPc = "idle"
    /\ fhPayload = NoPayload
    /\ fhReturn = NoFetchReturn

\* handleFetch up to await makeRequest; get always asks for a dataset
handleFetch(type) ==
    /\ fhPc \in {"idle", "returned"}
    /\ fhVariant = "part_001" => type = "dataset"
    /\ fhType' = Or(type, "dataset")
    /\ fhPc' = "awaiting"
    /\ fhPayload' = NoPayload
    /\ fhReturn' = NoFetchReturn
    /\ UNCHANGED fhVariant
    /\ UNCHANGED <<sessionVars, keyVars, cacheVars, routerVars, compareVars, previewVars, searchVars, rpcVars, relatedVars, clientVars, csvVars, tableVars>>

\* the upstream call settles and the handler runs to its end
FetchResume(p) ==
    /\ fhPc = "awaiting"
    /\ fhPayload' = p
    /\ fhReturn' = FetchResult(fhVariant, fhType, p)
    /\ fhPc' = "returned"
    /\ UNCHANGED <<fhVariant, fhType>>
    /\ UNCHANGED <<sessionVars, keyVars, cacheVars, routerVars, compareVars, previewVars, searchVars, rpcVars, relatedVars, clientVars, csvVars, tableVars>>

FetchNext ==
    \/ \E type \in ItemTypes : handleFetch(type)
    \/ \E p \in FetchPayloads : FetchResume(p)

\* ================================================= JSON-RPC framed worker
\* POST /sse of src/unnamed/part_000 47-213 and src/unnamed/part_002 115-250.

RpcVariants == {"part_000", "part_002"}

\* the tools of the switch in tools/call
CatalogTools == {"search", "fetch", "portaljs_package_search"}

RpcMethods ==
    {"notifications/initialized", "tools/list", "tools/call", "initialize",
     "resources/list"}

\* the bodies a client may post: text that is no JSON, or an envelope with
\* its jsonrpc and method fields and, for tools/call, params.name
RpcRequests ==
    {[parsable |-> FALSE, jsonrpc |-> Undefined, method |-> "tools/call",
      hasParams |-> FALSE, name |-> "search"]}
    \cup [parsable : {TRUE},
          jsonrpc : {"2.0", "1.0", Undefined},
          method : RpcMethods,
          hasParams : BOOLEAN,
          name : CatalogTools \cup {"delete_everything"}]

\* new Response(JSON.stringify({jsonrpc, id, result | error}), {status})
RpcResult(kind) == [status |-> 200, code |-> 0, body |-> kind]
RpcError(code, status) == [status |-> status, code |-> code, body |-> "error"]

NoResponse == [status |-> 0, code |-> 0, body |-> "none"]
NoRequest ==
    [parsable |-> FALSE, jsonrpc |-> Undefined, method |-> "none",
     hasParams |-> FALSE, name |-> "none"]

\* only part_002 has if (body.jsonrpc !== "2.0")
VersionChecked(v) == v = "part_002"

\* the default case of the switch: part_002 returns the -32601 response,
\* part_000 throws into the catch
UnknownToolResponse(v) ==
    IF v = "part_002" THEN RpcError(-32601, 404) ELSE RpcError(-32603, 500)

\* the handler that a request runs, and the response, given whether that
\* handler throws
RpcDispatch(v, req, handlerThrows) ==
    IF ~req.parsable
    THEN [called |-> "none", response |-> RpcError(-32603, 500)]
    ELSE IF VersionChecked(v) /\ req.jsonrpc # "2.0"
    THEN [called |-> "none", response |-> RpcError(-32600, 400)]
    ELSE IF req.method = "notifications/initialized"
    THEN [called |-> "none", response |-> RpcResult("empty")]
    ELSE IF req.method = "tools/list"
    THEN [called |-> "none", response |-> RpcResult("tools")]
    ELSE IF req.method = "tools/call"
    THEN IF ~req.hasParams
         THEN [called |-> "none", response |-> RpcError(-32603, 500)]
         ELSE IF req.name \notin CatalogTools
         THEN [called |-> "none", response |-> UnknownToolResponse(v)]
         ELSE IF handlerThrows
         THEN [called |-> req.name, response |-> RpcError(-32603, 500)]
         ELSE [called |-> req.name, response |-> RpcResult("content")]
    ELSE IF req.method = "initialize"
    THEN [called |-> "none", response |-> RpcResult("serverInfo")]
    ELSE [called |-> "none", response |-> RpcError(-32601, 404)]

RpcInit ==
    /\ rpcVariant \in RpcVariants
    /\ rpcRequest = NoRequest
    /\ rpcCalled = "none"
    /\ rpcResponse = NoResponse

\* fetch(request) for POST /sse
RpcPost(req, handlerThrows) ==
    /\ rpcRequest' = req
    /\ rpcCalled' = RpcDispatch(rpcVariant, req, handlerThrows).called
    /\ rpcResponse' = RpcDispatch(rpcVariant, req, handlerThrows).response
    /\ UNCHANGED rpcVariant
    /\ UNCHANGED <<sessionVars, keyVars, cacheVars, routerVars, compareVars, previewVars, searchVars, fetchVars, relatedVars, clientVars, csvVars, tableVars>>

RpcNext ==
    \E req \in RpcRequests, handlerThrows \in BOOLEAN : RpcPost(req, handlerThrows)

\* =================================================== get_related_datasets
\* src/unnamed/part_002 1107-1183.  A dataset of a search result is
\* [id, via]: its id and the search that gave this copy of it.

CandidateIds == {1, 2, 3}
SourceIds == {1, 2}

MaxListLen == 3
LongListLen == 12

\* the results array of a package_search answer: every short list of
\* candidate ids, and longer lists of distinct ids
ResultLists ==
    UNION {[1..n -> CandidateIds] : n \in 0..MaxListLen}
    \cup {[i \in 1..LongListLen |-> i],
          [i \in 1..LongListLen |-> LongListLen + 1 - i],
          [i \in 1..(LongListLen - 4) |-> i + 4]}

Via(ids, via) == [i \in DOMAIN ids |-> [id |-> ids[i], via |-> via]]

\* what package_show answers for the source
RelatedSources ==
    {[kind |-> k, id |-> 1, hasOrganization |-> FALSE, hasTags |-> FALSE] :
        k \in {"failed", "not_found"}}
    \cup [kind : {"found"}, id : SourceIds,
          hasOrganization : BOOLEAN, hasTags : BOOLEAN]

\* what a package_search answers: fetch or json() rejects, success is
\* false, or success with result.results
RelatedSearches ==
    {[kind |-> k, results |-> <<>>] : k \in {"failed", "no_success"}}
    \cup {[kind |-> "results", results |-> l] : l \in ResultLists}

RelationTypes == {"organization", "tags", "both"}

\* results.filter(d => d.id !== source.id)
NotSource(list, sourceId) ==
    LET keep(d) == d.id # sourceId IN SelectSeq(list, keep)

\* the index of the entry of list with this id, 0 if there is none
IndexOfId(list, id) ==
    IF \E i \in DOMAIN list : list[i].id = id
    THEN CHOOSE i \in DOMAIN list : list[i].id = id /\ \A j \in 1..(i - 1) : list[j].id # id
    ELSE 0

\* mutant of MapSet: a key set again moves to the end
MapSetMoved(entries, d) ==
    LET other(e) == e.id # d.id IN Append(SelectSeq(entries, other), d)

\* Map.prototype.set: a new key is appended, a key already there keeps
\* its place and takes the new value
MapSet(entries, d) ==
    IF IndexOfId(entries, d.id) = 0
    THEN Append(entries, d)
    ELSE [entries EXCEPT ![IndexOfId(entries, d.id)] = d]

\* Array.from(new Map(list.map(d => [d.id, d])).values())
RECURSIVE UniqueById(_)
UniqueById(list) ==
    IF list = <<>> THEN <<>>
    ELSE MapSet(UniqueById(SubSeq(list, 1, Len(list) - 1)), list[Len(list)])

\* uniqueDatasets.slice(0, 10)
MaxRelated == 10

RelatedResults(list) == JsSlice(UniqueById(list), 0, MaxRelated)

NoRelatedReturn == [kind |-> "none", related_datasets |-> <<>>]
RelatedText(results) == [kind |-> "text", related_datasets |-> results]
RelatedError == [kind |-> "error", related_datasets |-> <<>>]
RelatedThrown == [kind |-> "thrown", related_datasets |-> <<>>]

RelatedInit ==
    /\ rdPc = "idle"
    /\ rdRelation = "both"
    /\ rdSource = [id |-> 1, hasOrganization |-> FALSE, hasTags |-> FALSE]
    /\ rdCandidates = <<>>
    /\ relatedDatasets = <<>>
    /\ rdReturn = NoRelatedReturn

\* the handler from the tags branch on, once the organization branch is done
RelatedAfterOrganization(relation, source, related) ==
    IF relation \in {"tags", "both"} /\ source.hasTags
    THEN /\ rdPc' = "tag_search"
         /\ rdReturn' = NoRelatedReturn
    ELSE /\ rdPc' = "returned"
         /\ rdReturn' = RelatedText(RelatedResults(related))

\* the handler up to await fetch(sourceEndpoint)
get_related_datasets(relation_type) ==
    /\ rdPc \in {"idle", "returned"}
    /\ rdRelation' = relation_type
    /\ rdPc' = "package_show"
    /\ rdCandidates' = <<>>
    /\ relatedDatasets' = <<>>
    /\ rdReturn' = NoRelatedReturn
    /\ UNCHANGED rdSource
    /\ UNCHANGED <<sessionVars, keyVars, cacheVars, routerVars, compareVars, previewVars, searchVars, fetchVars, rpcVars, clientVars, csvVars, tableVars>>

\* package_show settles
RelatedSource(s) ==
    /\ rdPc = "package_show"
    /\ UNCHANGED <<rdRelation, rdCandidates, relatedDatasets>>
    /\ IF s.kind = "failed"
       THEN rdPc' = "returned" /\ rdReturn' = RelatedThrown /\ UNCHANGED rdSource
       ELSE IF s.kind = "not_found"
       THEN rdPc' = "returned" /\ rdReturn' = RelatedError /\ UNCHANGED rdSource
       ELSE /\ rdSource' = [id |-> s.id, hasOrganization |-> s.hasOrganization,
                            hasTags |-> s.hasTags]
            /\ IF rdRelation \in {"organization", "both"} /\ s.hasOrganization
               THEN rdPc' = "organization_search" /\ rdReturn' = NoRelatedReturn
               ELSE RelatedAfterOrganization(rdRelation, s, <<>>)
    /\ UNCHANGED <<sessionVars, keyVars, cacheVars, routerVars, compareVars, previewVars, searchVars, fetchVars, rpcVars, clientVars, csvVars, tableVars>>

\* the search by organization settles
RelatedOrganization(r) ==
    /\ rdPc = "organization_search"
    /\ UNCHANGED <<rdRelation, rdSource>>
    /\ IF r.kind = "failed"
       THEN /\ rdPc' = "returned" /\ rdReturn' = RelatedThrown
            /\ UNCHANGED <<rdCandidates, relatedDatasets>>
       ELSE LET found == IF r.kind = "results" THEN Via(r.results, "organization")
                         ELSE <<>>
                related == relatedDatasets \o NotSource(found, rdSource.id)
            IN  /\ rdCandidates' = rdCandidates \o found
                /\ relatedDatasets' = related
                /\ RelatedAfterOrganization(rdRelation, rdSource, related)
    /\ UNCHANGED <<sessionVars, keyVars, cacheVars, routerVars, compareVars, previewVars, searchVars, fetchVars, rpcVars, clientVars, csvVars, tableVars>>

\* the search by tags settles and the handler returns
RelatedTags(r) ==
    /\ rdPc = "tag_search"
    /\ rdPc' = "returned"
    /\ UNCHANGED <<rdRelation, rdSource>>
    /\ IF r.kind = "failed"
       THEN /\ rdReturn' = RelatedThrown
            /\ UNCHANGED <<rdCandidates, relatedDatasets>>
       ELSE LET found == IF r.kind = "results" THEN Via(r.results, "tags") ELSE <<>>
                related == relatedDatasets \o NotSource(found, rdSource.id)
            IN  /\ rdCandidates' = rdCandidates \o found
                /\ relatedDatasets' = related
                /\ rdReturn' = RelatedText(RelatedResults(related))
    /\ UNCHANGED <<sessionVars, keyVars, cacheVars, routerVars, compareVars, previewVars, searchVars, fetchVars, rpcVars, clientVars, csvVars, tableVars>>

RelatedNext ==
    \/ \E relation_type \in RelationTypes : get_related_datasets(relation_type)
    \/ \E s \in RelatedSources : RelatedSource(s)
    \/ \E r \in RelatedSearches : RelatedOrganization(r)
    \/ \E r \in RelatedSearches : RelatedTags(r)

\* ================================ PortalJSAPIClient: the requests it sends
\* src/src/portaljs-client.ts 48-82; the client is built at
\* src/unnamed/part_002 92-94 (part_000 24-26).

\* env.PORTALJS_API_KEY
ClientKeys == {Undefined, "key1"}
\* env.PORTALJS_API_URL || "https://api.cloud.portaljs.com"; slash: the
\* text ends with "/"
BaseUrls ==
    {[host |-> DefaultApiUrl, slash |-> FALSE],
     [host |-> "https://ckan.example", slash |-> TRUE]}
\* the data argument of makeRequest
RequestData == {Undefined, "{\"name\":\"d\"}"}
NoHeader == "<no header>"

\* the most fetch() calls followed
MaxSent == 2

\* baseUrl.replace(/\/$/, "")
StripSlash(u) == [u EXCEPT !.slash = FALSE]

\* getHeaders()
getHeaders ==
    [contentType |-> "application/json",
     userAgent |-> "MCP-PortalJS-Server/1.0",
     authorization |-> NoHeader]

\* const options: RequestInit = {method, headers: this.getHeaders()} and
\* if (data && method !== "GET") options.body = JSON.stringify(data)
RequestInit(method, data) ==
    [method |-> method,
     headers |-> getHeaders,
     body |-> IF Truthy(data) /\ method # "GET" THEN data ELSE Undefined]

\* fetch(url), called with the url alone: a GET with no body and none of
\* the caller's headers
FetchUrl(url) ==
    [url |-> url, method |-> "GET", authorization |-> NoHeader,
     body |-> Undefined]

NoOptions == RequestInit("GET", Undefined)

ClientInit ==
    /\ clKey = Undefined
    /\ clBaseUrl = [host |-> DefaultApiUrl, slash |-> FALSE]
    /\ clOptions = NoOptions
    /\ clSent = <<>>

\* new PortalJSAPIClient(portalUrl, apiKey): the constructor has the one
\* parameter baseUrl, and keeps no key
PortalJSAPIClient(baseUrl, apiKey) ==
    /\ clKey' = apiKey
    /\ clBaseUrl' = StripSlash(baseUrl)
    /\ UNCHANGED <<clOptions, clSent>>
    /\ UNCHANGED <<sessionVars, keyVars, cacheVars, routerVars, compareVars, previewVars, searchVars, fetchVars, rpcVars, relatedVars, csvVars, tableVars>>

\* makeRequest on a cache miss, up to await fetch(url)
makeRequestFetch(method, ep, data) ==
    /\ Len(clSent) < MaxSent
    /\ clOptions' = RequestInit(method, data)
    /\ clSent' = Append(clSent, FetchUrl([base |-> clBaseUrl, endpoint |-> ep]))
    /\ UNCHANGED <<clKey, clBaseUrl>>
    /\ UNCHANGED <<sessionVars, keyVars, cacheVars, routerVars, compareVars, previewVars, searchVars, fetchVars, rpcVars, relatedVars, csvVars, tableVars>>

ClientNext ==
    \/ \E u \in BaseUrls, k \in ClientKeys : PortalJSAPIClient(u, k)
    \/ \E m \in Methods, ep \in Endpoints, data \in RequestData :
            makeRequestFetch(m, ep, data)

\* ======================================================= parseLine (CSV)
\* src/unnamed/part_001 212-235 (the same text in src/src/index.ts).

Quote == "\""
Comma == ","
Blank == " "

\* ---- bounds
\* every line of up to this many characters is parsed
MaxLineLen == 5

LineChars == {"a", Comma, Quote, Blank}
RECURSIVE LinesOfLen(_)
LinesOfLen(n) ==
    IF n = 0 THEN {<<>>}
    ELSE {Append(l, c) : l \in LinesOfLen(n - 1), c \in LineChars}
\* the lines the spec gives as examples: a,"b,c",d and "a""b"
ExampleList == <<"a", Comma, Quote, "b", Comma, "c", Quote, Comma, "d">>
ExampleEscape == <<Quote, "a", Quote, Quote, "b", Quote>>
Lines ==
    UNION {LinesOfLen(n) : n \in 0..MaxLineLen} \cup {ExampleList, ExampleEscape}

\* String.prototype.trim
RECURSIVE TrimStart(_)
TrimStart(s) == IF s # <<>> /\ Head(s) = Blank THEN TrimStart(Tail(s)) ELSE s
RECURSIVE TrimEnd(_)
TrimEnd(s) ==
    IF s # <<>> /\ s[Len(s)] = Blank THEN TrimEnd(SubSeq(s, 1, Len(s) - 1)) ELSE s
Trim(s) == TrimStart(TrimEnd(s))

\* line[i] (1-based here); undefined past the end
CharAt(line, i) == IF i \in DOMAIN line THEN line[i] ELSE Undefined

\* parseLine whose comma test leaves out !inQuotes
RECURSIVE parseLineLoopAnyComma(_, _, _, _, _)
parseLineLoopAnyComma(line, i, res, current, inQuotes) ==
    IF i > Len(line) THEN Append(res, Trim(current))
    ELSE IF line[i] = Quote THEN
            IF inQuotes /\ CharAt(line, i + 1) = Quote
            THEN parseLineLoopAnyComma(line, i + 2, res, Append(current, Quote), inQuotes)
            ELSE parseLineLoopAnyComma(line, i + 1, res, current, ~inQuotes)
    ELSE IF line[i] = Comma
    THEN parseLineLoopAnyComma(line, i + 1, Append(res, Trim(current)), <<>>, inQuotes)
    ELSE parseLineLoopAnyComma(line, i + 1, res, Append(current, line[i]), inQuotes)

\* the for loop of parseLine from index i on, with result, current and
\* inQuotes as they are there
RECURSIVE parseLineLoop(_, _, _, _, _)
parseLineLoop(line, i, res, current, inQuotes) ==
    IF i > Len(line) THEN Append(res, Trim(current))
    ELSE IF line[i] = Quote THEN
            IF inQuotes /\ CharAt(line, i + 1) = Quote
            THEN parseLineLoop(line, i + 2, res, Append(current, Quote), inQuotes)
            ELSE parseLineLoop(line, i + 1, res, current, ~inQuotes)
    ELSE IF line[i] = Comma /\ ~inQuotes
    THEN parseLineLoop(line, i + 1, Append(res, Trim(current)), <<>>, inQuotes)
    ELSE parseLineLoop(line, i + 1, res, Append(current, line[i]), inQuotes)

parseLine(line) == parseLineLoop(line, 1, <<>>, <<>>, FALSE)

NotParsed == [done |-> FALSE, fields |-> <<>>]

CsvInit ==
    /\ csvLine \in Lines
    /\ csvFields = NotParsed

\* const values = parseLine(line)
ParseLine ==
    /\ ~csvFields.done
    /\ csvFields' = [done |-> TRUE, fields |-> parseLine(csvLine)]
    /\ UNCHANGED csvLine
    /\ UNCHANGED <<sessionVars, keyVars, cacheVars, routerVars, compareVars, previewVars, searchVars, fetchVars, rpcVars, relatedVars, clientVars, tableVars>>

CsvNext == ParseLine

\* ============================================================ buildTable
\* src/unnamed/part_001 250-272 (the same text in src/src/index.ts).
\* A string is the sequence of its characters; the returned text is the
\* sequence of its lines.

Pipe == "|"
Backslash == "\\"

\* ---- bounds
\* the most fields and the most records buildTable is given
MaxFields == 2
MaxRows == 2

FieldNames == {<<"x">>, <<"a", Pipe, "b">>}
CellString(chars) == [t |-> "string", v |-> chars]
CellValues ==
    {JsUndefined, JsNull, CellString(<<"1">>), CellString(<<"1", Pipe, "2">>)}
RECURSIVE SeqsUpTo(_, _)
SeqsUpTo(S, n) ==
    IF n = 0 THEN {<<>>}
    ELSE SeqsUpTo(S, n - 1)
         \cup {Append(s, x) : s \in {t \in SeqsUpTo(S, n - 1) : Len(t) = n - 1}, x \in S}
FieldLists == SeqsUpTo(FieldNames, MaxFields)
RecordLists == SeqsUpTo([FieldNames -> CellValues], MaxRows)
\* metadata.total: absent from the direct fetches, a number from DataStore
Totals == {0, 3}

NoDataText == <<"No data found in this resource.">>

\* Array.prototype.join
RECURSIVE Join(_, _)
Join(ss, sep) ==
    IF ss = <<>> THEN <<>>
    ELSE IF Len(ss) = 1 THEN ss[1]
    ELSE ss[1] \o sep \o Join(Tail(ss), sep)

\* `| ${cells.join(' | ')} |`
TableLine(cells) == <<Pipe, " ">> \o Join(cells, <<" ", Pipe, " ">>) \o <<" ", Pipe>>

\* String(value).replace(/\|/g, '\\|')
RECURSIVE EscapePipes(_)
EscapePipes(s) ==
    IF s = <<>> THEN <<>>
    ELSE (IF Head(s) = Pipe THEN <<Backslash, Pipe>> ELSE <<Head(s)>>)
         \o EscapePipes(Tail(s))

\* fields.map((field) => ...) of one record
CellOf(record, field) ==
    LET value == record[field] IN
    IF value = JsNull \/ value = JsUndefined THEN <<>>
    ELSE EscapePipes(value.v)

\* const metaLines = [...].filter(Boolean); the last one ends with a line
\* break of its own
metaLines(metadata) ==
    <<<<"**Source:**", metadata.source>>>>
    \o (IF metadata.url # "" THEN <<<<"**Download URL:**", metadata.url>>>> ELSE <<>>)
    \o (IF metadata.total # 0 THEN <<<<"**Total Records:**">>>> ELSE <<>>)
    \o <<<<"**Showing:**">>, <<>>>>

\* buildTable without its first line, if (records.length === 0) return
buildTableAlways(fields, records, metadata) ==
    LET header == TableLine(fields)
        separator == TableLine([i \in DOMAIN fields |-> <<"-", "-", "-">>])
        rows == [r \in DOMAIN records |->
                   TableLine([i \in DOMAIN fields |-> CellOf(records[r], fields[i])])]
    IN  metaLines(metadata) \o <<header, separator>> \o rows

\* buildTable(fields, records, metadata), as the lines of its text
buildTableLines(fields, records, metadata) ==
    IF Len(records) = 0 THEN <<NoDataText>>
    ELSE LET header == TableLine(fields)
             separator == TableLine([i \in DOMAIN fields |-> <<"-", "-", "-">>])
             rows == [r \in DOMAIN records |->
                        TableLine([i \in DOMAIN fields |-> CellOf(records[r], fields[i])])]
         IN  metaLines(metadata) \o <<header, separator>> \o rows

NoTable == [done |-> FALSE, lines |-> <<>>]

TableInit ==
    /\ tbFields \in FieldLists
    /\ tbRecords \in RecordLists
    /\ tbMetadata \in {[source |-> "DataStore", url |-> "https://files.example/data",
                        total |-> t, showing |-> Len(tbRecords)] : t \in Totals}
    /\ tbTable = NoTable

\* const table = buildTable(fields, records, {...})
BuildTable ==
    /\ ~tbTable.done
    /\ tbTable' = [done |-> TRUE,
                   lines |-> buildTableLines(tbFields, tbRecords, tbMetadata)]
    /\ UNCHANGED <<tbFields, tbRecords, tbMetadata>>
    /\ UNCHANGED <<sessionVars, keyVars, cacheVars, routerVars, compareVars, previewVars, searchVars, fetchVars, rpcVars, relatedVars, clientVars, csvVars>>

TableNext == BuildTable

\* ========================================================= specifications
\* Each part runs with the variables of the other parts at rest.

KeyIdle ==
    /\ endpoint = "" /\ params1 = NoParams /\ params2 = NoParams
    /\ cacheKey1 = NotComputed /\ cacheKey2 = NotComputed

CacheIdle == CacheInit

SessionIdle ==
    /\ variant = "index" /\ envApiUrl = Undefined
    /\ state = [apiKey |-> Undefined, apiUrl |-> Undefined]
    /\ initApiUrl = DefaultApiUrl
    /\ called = "none" /\ result = NoResult /\ issued = <<>>

RouterIdle ==
    /\ routerVariant = "part_001"
    /\ current_api_url = <<BASE_URL>>
    /\ connections = {} /\ invocations = {}
    /\ lastFetch = NoFetch /\ routed = "none"

CompareIdle == CompareInit

PreviewIdle == PreviewInit /\ pvOrganization = Undefined

SearchIdle == SearchInit

FetchIdle ==
    /\ fhVariant = "part_002" /\ fhType = "dataset" /\ fhPc = "idle"
    /\ fhPayload = NoPayload /\ fhReturn = NoFetchReturn

RpcIdle ==
    /\ rpcVariant = "part_002" /\ rpcRequest = NoRequest
    /\ rpcCalled = "none" /\ rpcResponse = NoResponse

RelatedIdle == RelatedInit

ClientIdle == ClientInit

CsvIdle == csvLine = <<>> /\ csvFields = NotParsed

TableIdle ==
    /\ tbFields = <<>> /\ tbRecords = <<>> /\ tbTable = NoTable
    /\ tbMetadata = [source |-> "DataStore", url |-> "", total |-> 0, showing |-> 0]

InitSession == SessionInit /\ KeyIdle /\ CacheIdle /\ RouterIdle /\ CompareIdle /\ PreviewIdle /\ SearchIdle /\ FetchIdle /\ RpcIdle /\ RelatedIdle /\ ClientIdle /\ CsvIdle /\ TableIdle
SpecSession == InitSession /\ [][SessionNext]_vars

InitKey == KeyInit /\ SessionIdle /\ CacheIdle /\ RouterIdle /\ CompareIdle /\ PreviewIdle /\ SearchIdle /\ FetchIdle /\ RpcIdle /\ RelatedIdle /\ ClientIdle /\ CsvIdle /\ TableIdle
SpecKey == InitKey /\ [][KeyNext]_vars

InitCache == CacheInit /\ SessionIdle /\ KeyIdle /\ RouterIdle /\ CompareIdle /\ PreviewIdle /\ SearchIdle /\ FetchIdle /\ RpcIdle /\ RelatedIdle /\ ClientIdle /\ CsvIdle /\ TableIdle
SpecCache == InitCache /\ [][CacheNext]_vars

InitRouter == RouterInit /\ SessionIdle /\ KeyIdle /\ CacheIdle /\ CompareIdle /\ PreviewIdle /\ SearchIdle /\ FetchIdle /\ RpcIdle /\ RelatedIdle /\ ClientIdle /\ CsvIdle /\ TableIdle
SpecRouter == InitRouter /\ [][RouterNext]_vars

InitCompare == CompareInit /\ SessionIdle /\ KeyIdle /\ CacheIdle /\ RouterIdle /\ PreviewIdle /\ SearchIdle /\ FetchIdle /\ RpcIdle /\ RelatedIdle /\ ClientIdle /\ CsvIdle /\ TableIdle
SpecCompare == InitCompare /\ [][CompareNext]_vars

InitPreview == PreviewInit /\ KeyIdle /\ CacheIdle /\ SessionIdle /\ RouterIdle /\ CompareIdle /\ SearchIdle /\ FetchIdle /\ RpcIdle /\ RelatedIdle /\ ClientIdle /\ CsvIdle /\ TableIdle
SpecPreview == InitPreview /\ [][PreviewNext]_vars

InitSearch == SearchInit /\ KeyIdle /\ CacheIdle /\ SessionIdle /\ RouterIdle /\ CompareIdle /\ PreviewIdle /\ FetchIdle /\ RpcIdle /\ RelatedIdle /\ ClientIdle /\ CsvIdle /\ TableIdle
SpecSearch == InitSearch /\ [][SearchNext]_vars

InitFetch == FetchInit /\ KeyIdle /\ CacheIdle /\ SessionIdle /\ RouterIdle /\ CompareIdle /\ PreviewIdle /\ SearchIdle /\ RpcIdle /\ RelatedIdle /\ ClientIdle /\ CsvIdle /\ TableIdle
SpecFetch == InitFetch /\ [][FetchNext]_vars

InitRpc == RpcInit /\ KeyIdle /\ CacheIdle /\ SessionIdle /\ RouterIdle /\ CompareIdle /\ PreviewIdle /\ SearchIdle /\ FetchIdle /\ RelatedIdle /\ ClientIdle /\ CsvIdle /\ TableIdle
SpecRpc == InitRpc /\ [][RpcNext]_vars

InitRelated == RelatedInit /\ KeyIdle /\ CacheIdle /\ SessionIdle /\ RouterIdle /\ CompareIdle /\ PreviewIdle /\ SearchIdle /\ FetchIdle /\ RpcIdle /\ ClientIdle /\ CsvIdle /\ TableIdle
SpecRelated == InitRelated /\ [][RelatedNext]_vars

InitClient == ClientInit /\ KeyIdle /\ CacheIdle /\ SessionIdle /\ RouterIdle /\ CompareIdle /\ PreviewIdle /\ SearchIdle /\ FetchIdle /\ RpcIdle /\ RelatedIdle /\ CsvIdle /\ TableIdle
SpecClient == InitClient /\ [][ClientNext]_vars

InitCsv == CsvInit /\ KeyIdle /\ CacheIdle /\ SessionIdle /\ RouterIdle /\ CompareIdle /\ PreviewIdle /\ SearchIdle /\ FetchIdle /\ RpcIdle /\ RelatedIdle /\ ClientIdle /\ TableIdle
SpecCsv == InitCsv /\ [][CsvNext]_vars

InitTable == TableInit /\ KeyIdle /\ CacheIdle /\ SessionIdle /\ RouterIdle /\ CompareIdle /\ PreviewIdle /\ SearchIdle /\ FetchIdle /\ RpcIdle /\ RelatedIdle /\ ClientIdle /\ CsvIdle
SpecTable == InitTable /\ [][TableNext]_vars

\* ---- claims on getCacheKey

\* p1 and p2 are objects with the same keys and the same value at each key
SameMapping(p1, p2) ==
    /\ p1.defined /\ p2.defined
    /\ KeysOf(p1.props) = KeysOf(p2.props)
    /\ \A k \in KeysOf(p1.props) : Get(p1.props, k) = Get(p2.props, k)

\* C8: cache key canonicalization.  Two params objects with the same key set
\* and identical values get the same cache key for the same endpoint,
\* whatever the insertion order of their keys.
C8_KeyCanonical ==
    (cacheKey1 # NotComputed /\ cacheKey2 # NotComputed /\ SameMapping(params1, params2))
        => cacheKey1 = cacheKey2

\* both keys are computed for one mapping of three properties, one of them
\* a nested object, given in two different insertion orders
C8_Witness ==
    /\ cacheKey1 # NotComputed /\ cacheKey2 # NotComputed
    /\ SameMapping(params1, params2)
    /\ params1 # params2
    /\ Len(params1.props) = 3
    /\ \E i \in DOMAIN params1.props : params1.props[i][2].kind = "object"
    /\ cacheKey1 = cacheKey2

\* ---- claims on makeRequest and the cache

\* the call is a GET with caching enabled
IsCacheable(c) == c.method = "GET" /\ c.useCache

\* the response is an OK HTTP status whose body parses to a success=true
\* envelope
IsSuccess(o) == o.net /\ o.ok /\ o.parsable /\ o.success

\* a step that is no resumption: no suspended call went away
NoCallResumed == BagCardinality(inflight') >= BagCardinality(inflight)

\* C4: cache TTL.  A cacheable GET whose key has an entry stored at storedAt
\* returns the stored payload at any time t < storedAt + 300000 and issues
\* no call; at t >= storedAt + 300000 it issues a fresh upstream call.
C4_CacheTTL ==
    [][NoCallResumed =>
        \A c \in Calls :
            (IsCacheable(c) /\ KeyOfCall(c) \in DOMAIN cache /\ makeRequest(c))
            => IF now < cache[KeyOfCall(c)].timestamp + 300000
               THEN /\ ret' = Returned("hit", cache[KeyOfCall(c)].data)
                    /\ inflight' = inflight
               ELSE /\ inflight' = inflight (+) SetToBag({c})
                    /\ ret' = ret]_vars

\* an entry was served from the cache, and a cacheable GET for an entry that
\* has reached the age of 300000 is waiting for the upstream
C4_Witness ==
    /\ ret.kind = "hit"
    /\ \E c \in BagToSet(inflight) :
        /\ IsCacheable(c)
        /\ KeyOfCall(c) \in DOMAIN cache
        /\ now - cache[KeyOfCall(c)].timestamp >= 300000

\* C5: a cache hit is a pure read.  It issues no network call and leaves
\* the whole cache, the entry's timestamp included, as it was.
C5_HitIsPureRead ==
    [][NoCallResumed =>
        \A c \in Calls :
            (/\ IsCacheable(c)
             /\ KeyOfCall(c) \in DOMAIN cache
             /\ now < cache[KeyOfCall(c)].timestamp + 300000
             /\ makeRequest(c))
            => /\ cache' = cache
               /\ inflight' = inflight]_vars

\* an entry was served later than it was stored, no call is under way and
\* no entry carries the current time
C5_Witness ==
    /\ ret.kind = "hit"
    /\ now > 0
    /\ inflight = EmptyBag
    /\ DOMAIN cache # {}
    /\ \A k \in DOMAIN cache : cache[k].timestamp < now

\* C6: the cache changes only when a GET with caching enabled resumes with
\* an OK status and a success=true envelope, and then only at that call's
\* key; no resumption of another call, or with another response, changes it.
C6_OnlySuccessfulGetsStored ==
    [][cache' # cache =>
        /\ ~\E c \in BagToSet(inflight), r \in Responses :
                /\ ~(IsCacheable(c) /\ IsSuccess(r.outcome))
                /\ makeRequestResume(c, r.outcome, r.payload)
        /\ \E c \in BagToSet(inflight) :
                /\ inflight' = inflight (-) SetToBag({c})
                /\ IsCacheable(c)
                /\ DOMAIN cache' = DOMAIN cache \cup {KeyOfCall(c)}
                /\ \A k \in DOMAIN cache : k # KeyOfCall(c) => cache'[k] = cache[k]
                /\ cache'[KeyOfCall(c)].timestamp = now
                /\ ret' = Returned("result", cache'[KeyOfCall(c)].data)]_vars

\* an upstream error has just been reported while the cache holds an entry
C6_Witness ==
    /\ ret.kind = "api_error"
    /\ DOMAIN cache # {}

\* C7: a call that is not a GET, or has useCache false, always goes to the
\* network and neither reads nor writes the cache.
C7_UncacheableBypassesCache ==
    [][/\ NoCallResumed =>
            \A c \in Calls :
                (~IsCacheable(c) /\ makeRequest(c))
                => /\ inflight' = inflight (+) SetToBag({c})
                   /\ cache' = cache /\ ret' = ret
       /\ cache' # cache =>
            ~\E c \in BagToSet(inflight), r \in Responses :
                ~IsCacheable(c) /\ makeRequestResume(c, r.outcome, r.payload)]_vars

\* a POST with useCache left on waits for the upstream while the cache
\* holds a valid entry under its key, and a result was returned
C7_Witness ==
    /\ ret.kind = "result"
    /\ \E c \in BagToSet(inflight) :
        /\ c.method = "POST" /\ c.useCache
        /\ KeyOfCall(c) \in DOMAIN cache
        /\ now - cache[KeyOfCall(c)].timestamp < 300000

\* ---- claims on the session agent

\* C1: write-gate.  A call of a write tool made while the session stores no
\* API key (undefined or the empty string) returns the
\* authentication-required text, issues no upstream call and leaves the
\* session state as it was.
C1_WriteGate ==
    [][(called' \in WriteTools /\ ~Truthy(state.apiKey))
        => /\ result' = AuthRequired
           /\ IsOneText(result')
           /\ issued' = <<>>
           /\ state' = state]_vars

\* a write tool has been called without a key and was turned away
C1_Witness ==
    /\ called = "add_user_to_organization"
    /\ state.apiKey = Undefined
    /\ result = AuthRequired
    /\ issued = <<>>

\* C2: the credential is only set, never cleared.  Once the session is
\* Authenticated it stays Authenticated through every further tool call.
C2_NeverCleared ==
    [][Authenticated(state) => Authenticated(state')]_vars

\* C9: whatever the upstream does, a tool call hands the transport exactly
\* one text content item and no exception leaves the handler.
C9_OneTextItem ==
    called # "none" => IsOneText(result)

\* ---- claims on the organization-scoped router (SpecRouter)

\* C3: no state but the cache is shared across requests.  Every upstream
\* call of a tool invocation that belongs to a connection opened at /@A/sse
\* targets BASE_URL/@A, whatever router requests for another organization
\* or for a non-organization path are interleaved with it.
C3_OrgIsolation ==
    (lastFetch # NoFetch /\ lastFetch.conn # <<>>)
        => lastFetch.url = OrgApiUrl(lastFetch.conn)

\* ---- claims on compare_datasets (SpecCompare)

\* C10: compare_datasets with k identifiers returns one text holding
\* min(k, 5) entries in input order, {id, error: "Not found"} for each
\* identifier that did not resolve and a populated entry for every other;
\* the comparison as a whole never fails because of one identifier.
C10_PartialFailure ==
    comparison # NoResult
        => /\ IsOneText(comparison)
           /\ LET entries == comparison.content[1].text IN
                /\ Len(entries) = Len(Slice(dataset_ids))
                /\ \A i \in 1..Len(entries) :
                        entries[i] \in {NotFound(dataset_ids[i]),
                                         Populated(dataset_ids[i])}

\* ---- claims on preview_data_table (SpecPreview)

\* the action names of the fetch() calls issued so far
Fetched == {pvFetched[i] : i \in DOMAIN pvFetched}

\* C11: preview_data_table fallback.  Whenever the DataStore query reports
\* success=false or no records (absent or empty list), the handler goes on
\* to fetch the resource's raw bytes from its url; a DataStore-sourced
\* result is returned only when DataStore yielded at least one record.
C11_Fallback ==
    /\ (/\ pvDatastore.kind = "envelope"
        /\ \/ ~pvDatastore.success
           \/ ~pvDatastore.hasRecords
           \/ Len(pvDatastore.records) = 0)
            => "resource_url" \in Fetched
    /\ (pvPc = "returned" /\ pvResult.content[1].text.source = "DataStore")
            => Len(pvDatastore.records) >= 1

\* C12: row-limit clamp.  For every limit L and every upstream response the
\* rendered table has at most min(L, 100) record rows (none for L <= 0) and
\* never more than 100, whichever source supplied the records.
C12_RowLimit ==
    pvPc = "returned"
        => /\ pvResult.content[1].text.rows <= 100
           /\ pvResult.content[1].text.rows
                <= (IF MaxLimit(pvLimit) < 0 THEN 0 ELSE MaxLimit(pvLimit))

\* ---- claims on handleSearch (SpecSearch)

\* C13: split-limit invariant.  For search with type "all" and requested
\* limit L >= 0, datasetsLimit + orgsLimit = L.
C13_SplitLimit ==
    (/\ hsPc # "idle"
     /\ TypeOf(hsArgs) = "all"
     /\ hsArgs.hasLimit
     /\ hsArgs.limit >= 0)
        => hsLimits.datasets + hsLimits.orgs = hsArgs.limit

\* C14: for search with type "all" and requested limit L (taken here as
\* L >= 1), the number of results returned never exceeds L, for every
\* upstream response.
C14_TotalWithinLimit ==
    (/\ hsReturn.returned
     /\ TypeOf(hsArgs) = "all"
     /\ hsArgs.hasLimit
     /\ hsArgs.limit >= 1)
        => hsReturn.total_results <= hsArgs.limit

\* ---- claims on handleFetch and get (SpecFetch)

\* a field the payload lacks: it is absent, null or empty
Lacks(x) == ~IsTruthy(x)

\* C15: every record returned by a direct entity fetch has non-null id and
\* name; a payload that lacks id fails as not found and one that lacks name
\* fails as malformed, in every variant.
C15_IdAndName ==
    /\ fhReturn.outcome = "record"
        => /\ fhReturn.record.id \notin {JsUndefined, JsNull}
           /\ fhReturn.record.name \notin {JsUndefined, JsNull}
    /\ (fhPc = "returned" /\ fhPayload.kind = "entity")
        => /\ Lacks(fhPayload.entity.id) => fhReturn.outcome = "not_found"
           /\ (~Lacks(fhPayload.entity.id) /\ Lacks(fhPayload.entity.name))
                => fhReturn.outcome = "malformed"

\* C16: normalization totality.  The record of a dataset whose payload has
\* no tags (resources, groups) has the empty list there, never null or
\* nothing; license, maintainer and author default to null.
C16_Defaults ==
    (fhReturn.outcome = "record" /\ fhReturn.type = "dataset")
        => /\ fhPayload.entity.tags = JsUndefined
                => fhReturn.record.tags = JsArray(<<>>)
           /\ fhPayload.entity.resources = JsUndefined
                => fhReturn.record.resources = JsArray(<<>>)
           /\ fhPayload.entity.groups = JsUndefined
                => fhReturn.record.groups = JsArray(<<>>)
           /\ fhPayload.entity.license_title = JsUndefined
                => fhReturn.record.license = JsNull
           /\ fhPayload.entity.maintainer = JsUndefined
                => fhReturn.record.maintainer = JsNull
           /\ fhPayload.entity.author = JsUndefined
                => fhReturn.record.author = JsNull

\* ---- claims on the JSON-RPC framed worker (SpecRpc)

\* C17: a tools/call request naming a tool that is not in the catalog is
\* answered with code -32601 and status 404; an error thrown by a known
\* tool's handler is answered with code -32603.
C17_UnknownTool ==
    (/\ rpcRequest.parsable
     /\ rpcRequest.jsonrpc = "2.0"
     /\ rpcRequest.method = "tools/call"
     /\ rpcRequest.hasParams)
        => /\ rpcRequest.name \notin CatalogTools
                => rpcResponse = RpcError(-32601, 404)
           /\ (rpcRequest.name \in CatalogTools /\ rpcResponse.body = "error")
                => rpcResponse.code = -32603

\* C18: a POST whose envelope has a jsonrpc field other than "2.0" is
\* answered with code -32600 and runs no tool handler, whatever its method.
C18_VersionCheck ==
    (rpcRequest.parsable /\ rpcRequest.jsonrpc # "2.0")
        => /\ rpcResponse.code = -32600
           /\ rpcCalled = "none"

\* ---- claims on get_related_datasets (SpecRelated)

\* the place of the first candidate with this id
FirstSeen(id) == IndexOfId(rdCandidates, id)

\* C19: in the result every candidate id appears at most once, the entries
\* are in the order of the first appearance of their ids in the candidate
\* sequence (organization candidates, then tag candidates), the source
\* dataset never appears, and there are at most 10 entries.
C19_RelatedDedup ==
    rdReturn.kind = "text"
        => LET related == rdReturn.related_datasets IN
            /\ Len(related) <= 10
            /\ \A i \in DOMAIN related :
                    /\ related[i].id # rdSource.id
                    /\ FirstSeen(related[i].id) > 0
            /\ \A i, j \in DOMAIN related :
                    i < j => FirstSeen(related[i].id) < FirstSeen(related[j].id)

\* both searches gave the same dataset, the source and more than ten
\* datasets in all, and the result is cut to ten
C19_Witness ==
    /\ rdReturn.kind = "text"
    /\ Len(rdReturn.related_datasets) = 10
    /\ Len(relatedDatasets) > 10
    /\ \E i \in DOMAIN rdCandidates : rdCandidates[i].id = rdSource.id
    /\ \E i, j \in DOMAIN rdCandidates :
            /\ rdCandidates[i].id = rdCandidates[j].id
            /\ rdCandidates[i].via = "organization"
            /\ rdCandidates[j].via = "tags"

\* ---- claims on the outcome of makeRequest (SpecCache)

\* C20: makeRequest outcome.  It fails with an HTTP error when the response
\* is not OK, before the body is parsed; it fails with an API error when
\* the parsed envelope has success=false; otherwise it returns the
\* envelope's result field, or the empty mapping exactly when result is
\* absent.  (A falsy result field is the empty string here.)
C20_Outcome ==
    [][\A c \in BagToSet(inflight), r \in Responses :
        (r.outcome.net /\ makeRequestResume(c, r.outcome, r.payload))
        => IF ~r.outcome.ok THEN ret'.kind = "http_error"
           ELSE IF ~r.outcome.parsable THEN TRUE
           ELSE IF ~r.outcome.success THEN ret'.kind = "api_error"
           ELSE ret' = Returned("result",
                        IF r.outcome.res = "absent" THEN EmptyMapping
                        ELSE r.payload)]_vars

\* ---- claims on the requests of PortalJSAPIClient (SpecClient)

\* C21: a client built with a static API key sends that key in the
\* authorization header of every upstream request, and no such header when
\* it was built with no key; the request uses the requested method, with
\* the body for a POST.
C21_ApiKey ==
    [][Len(clSent') > Len(clSent)
        => LET sent == clSent'[Len(clSent')] IN
           /\ sent.method = clOptions'.method
           /\ sent.body = clOptions'.body
           /\ sent.authorization = IF clKey = Undefined THEN NoHeader ELSE clKey]_vars

\* ---- claims on parseLine (SpecCsv)

\* the double quotes of line before index i
QuotesBefore(line, i) ==
    Cardinality({j \in 1..(i - 1) : line[j] = Quote})
\* index i is outside double quotes
OutsideQuotes(line, i) == QuotesBefore(line, i) % 2 = 0
\* the commas that are outside double quotes
SeparatingCommas(line) ==
    {i \in DOMAIN line : line[i] = Comma /\ OutsideQuotes(line, i)}
\* the doubled quotes inside a quoted field (the index of their first quote)
DoubledQuotes(line) ==
    {i \in DOMAIN line :
        line[i] = Quote /\ CharAt(line, i + 1) = Quote /\ ~OutsideQuotes(line, i)}
\* the characters of line that belong to a field: all but the separating
\* commas and the quotes, with one quote for each doubled quote
RECURSIVE FieldChars(_, _)
FieldChars(line, i) ==
    IF i > Len(line) THEN <<>>
    ELSE IF i \in SeparatingCommas(line)
            \/ (line[i] = Quote /\ i \notin DoubledQuotes(line))
         THEN FieldChars(line, i + 1)
         ELSE <<line[i]>> \o FieldChars(line, i + 1)
RECURSIVE Concat(_)
Concat(ss) == IF ss = <<>> THEN <<>> ELSE Head(ss) \o Concat(Tail(ss))
NoBlanks(s) == SelectSeq(s, LAMBDA c : c # Blank)

\* C22: parseLine splits a line on the commas outside double quotes, turns
\* a doubled quote inside a quoted field into one quote, drops the
\* delimiting quotes and trims each field; a,"b,c",d gives a / b,c / d and
\* "a""b" gives a"b.
C22_ParseLine ==
    csvFields.done =>
        LET f == csvFields.fields IN
        /\ Len(f) = 1 + Cardinality(SeparatingCommas(csvLine))
        /\ \A i \in DOMAIN f : Trim(f[i]) = f[i]
        /\ NoBlanks(Concat(f)) = NoBlanks(FieldChars(csvLine, 1))
        /\ csvLine = ExampleList => f = <<<<"a">>, <<"b", Comma, "c">>, <<"d">>>>
        /\ csvLine = ExampleEscape => f = <<<<"a", Quote, "b">>>>

C22_Witness ==
    /\ csvFields.done
    /\ csvLine = ExampleList
    /\ Len(csvFields.fields) = 3

\* ---- claims on buildTable (SpecTable)

\* the pipes of a line that no backslash precedes
UnescapedPipes(line) ==
    Cardinality({i \in DOMAIN line :
        line[i] = Pipe /\ (i = 1 \/ line[i - 1] # Backslash)})
\* the lines of the table that come before its header
MetaCount == Len(metaLines(tbMetadata))

\* C23: for non-empty records buildTable emits one row per record with one
\* cell per field, null and undefined as the empty string and every pipe
\* of a value escaped, so each row has as many unescaped column separators
\* as the header row.
C23_Rows ==
    (tbTable.done /\ tbRecords # <<>>) =>
        LET header == tbTable.lines[MetaCount + 1]
            rows == SubSeq(tbTable.lines, MetaCount + 3, Len(tbTable.lines))
        IN  /\ Len(rows) = Len(tbRecords)
            /\ \A r \in DOMAIN rows :
                 /\ UnescapedPipes(rows[r]) = UnescapedPipes(header)
                 /\ rows[r] = TableLine([i \in DOMAIN tbFields |->
                        LET value == tbRecords[r][tbFields[i]] IN
                        IF value.t = "string" THEN EscapePipes(value.v) ELSE <<>>])

\* C26: buildTable returns the no-data sentinel if and only if the record
\* list is empty; it never emits a header and a separator with no row
\* after them.
C26_Sentinel ==
    tbTable.done =>
        /\ (tbTable.lines = <<NoDataText>>) <=> (tbRecords = <<>>)
        /\ tbRecords # <<>> => Len(tbTable.lines) >= MetaCount + 3
        /\ tbRecords = <<>> => Len(tbTable.lines) = 1

C26_Witness ==
    /\ tbTable.done
    /\ tbRecords = <<>>
    /\ tbFields # <<>>
    /\ tbTable.lines = <<NoDataText>>

\* ---- claims on the raw download of preview_data_table (SpecPreview)

\* the declared format or the content type says JSON
SaysJson(dl) == pvResource.format = "json" \/ dl.contentType = "application/json"
\* the declared format, the content type or the url's suffix says CSV
SaysCsv(dl) ==
    \/ pvResource.format = "csv"
    \/ dl.contentType = "text/csv"
    \/ pvResource.url = "https://files.example/data.csv"
SourceOf(r) == r.content[1].text.source

\* C24: when the DataStore gave no usable records and the raw fetch
\* succeeds, the JSON reading is tried before the CSV reading, and a
\* resource that neither format, content type nor url suffix marks as JSON
\* or CSV gives the "unsupported format" text, not an exception.
C24_JsonFirst ==
    [][(pvPc = "download" /\ pvPc' = "returned") =>
        \A dl \in Downloads :
            (dl.net /\ dl.ok /\ PreviewDownload(dl)) =>
                /\ IsOneText(pvResult')
                /\ SaysJson(dl) =>
                     /\ SourceOf(pvResult') # "Direct fetch (CSV)"
                     /\ pvResult' # PreviewError("Error: Unsupported format")
                     /\ dl.body.json # "invalid" =>
                          pvResult'.content[1].text.message
                            \in {"", "No data found in this resource."}
                /\ (~SaysJson(dl) /\ SaysCsv(dl)) =>
                     pvResult' = buildTable(parseCSV(dl.body.lines, MaxLimit(pvLimit)),
                                            "Direct fetch (CSV)")
                /\ (~SaysJson(dl) /\ ~SaysCsv(dl)) =>
                     pvResult' = PreviewError("Error: Unsupported format")]_vars

C24_Witness ==
    /\ pvPc = "returned"
    /\ pvFetched = <<"resource_show", "datastore_search", "resource_url">>
    /\ pvResource.format = "xls"
    /\ pvResult = PreviewError("Error: Unsupported format")

\* ---- claims on concurrent makeRequest calls (SpecCache)

\* C25: when two cacheable GETs of one key both miss and run interleaved,
\* both store the same payload: the call that completes last leaves the
\* entry's data as the earlier writer stored it.  (A call suspended while
\* its key has a valid entry missed before that entry was written.)
C25_IdempotentWrites ==
    [][cache' # cache =>
        \A c \in BagToSet(inflight) :
            LET key == KeyOfCall(c) IN
            (/\ CacheEligible(c.method, c.useCache)
             /\ Cached(cache, key)
             /\ isCacheValid(cache[key].timestamp, now)
             /\ inflight' = inflight (-) SetToBag({c}))
            => cache'[key].data = cache[key].data]_vars

\* ---- claims on the organization-scoped preview_data_table (SpecPreview)

\* package_show confirmed that the dataset is of the scoped organization
ConfirmedInOrganization == pvPackage.success /\ pvPackage.org = pvOrganization

\* C27: scoped to an organization, preview_data_table returns no data row
\* of a resource whose dataset is not confirmed to belong to it: whatever
\* package_show answers, success=false included, such a resource gives an
\* error result.
C27_OrgCheck ==
    (/\ pvPc = "returned"
     /\ Truthy(pvOrganization)
     /\ pvPackage # NoPackage
     /\ ~ConfirmedInOrganization)
    => /\ IsOneText(pvResult)
       /\ pvResult.content[1].text.rows = 0
       /\ pvResult.content[1].text.source = "none"

\* ---- claims on the session's API URL (SpecSession)

\* C28: after set_api_key with an api_url, every later tool call of the
\* session, read or write, sends its upstream request to that url; a later
\* set_api_key without api_url keeps the url set before.
C28_SessionUrl ==
    [][/\ (called' \notin {"none", "set_api_key"} /\ issued' # <<>>
            /\ Truthy(state.apiUrl))
          => issued'[1].url = state.apiUrl
       /\ \A k \in ApiKeys, u \in ApiUrls :
            (~Truthy(u) /\ Truthy(state.apiUrl) /\ set_api_key(k, u))
            => state'.apiUrl = state.apiUrl]_vars

\* ---- claims on the read tools of the session agent (SpecSession)

ReadTools ==
    {"search", "fetch", "get_dataset_stats", "preview_resource",
     "get_related_datasets", "get_organization_details", "compare_datasets"}
\* the url the handlers use when the session stores no key
UrlWithoutKey ==
    HandlerApiUrl(variant, [apiKey |-> Undefined, apiUrl |-> state.apiUrl],
                  envApiUrl, initApiUrl)
KeylessFetch(t, action) ==
    [tool |-> t, url |-> UrlWithoutKey, action |-> action, method |-> "GET",
     auth |-> Undefined]

\* what a read tool can issue and answer when the session stores no key
KeylessRuns(t) ==
    IF t = "get_related_datasets"
    THEN {[issued |-> IF RespondUnchecked(o, "", "source") = Text("source")
                      THEN <<KeylessFetch(t, "package_show"),
                             KeylessFetch(t, "package_search")>>
                      ELSE <<KeylessFetch(t, "package_show")>>,
           result |-> RespondRelatedDatasets(o, o2)] : o \in UncheckedOutcomes, o2 \in UncheckedOutcomes}
    ELSE IF t = "compare_datasets"
    THEN {[issued |-> <<KeylessFetch(t, "package_show"), KeylessFetch(t, "package_show")>>,
           result |-> RespondCompareDatasets(o, o2)] : o \in UncheckedOutcomes, o2 \in UncheckedOutcomes}
    ELSE {[issued |-> <<KeylessFetch(t, ActionOf(t))>>,
           result |-> Respond(t, o)] : o \in Outcomes}

\* C29: only the gated tools send the session key.  Every request of a
\* read tool carries no Authorization header, and its requests and its
\* result are among those it gives when no key is stored, whatever key
\* the session holds; the session state is left as it was.
C29_ReadToolsKeyless ==
    [][called' \in ReadTools =>
        /\ issued' # <<>>
        /\ \A i \in DOMAIN issued' : issued'[i].auth = Undefined
        /\ state' = state
        /\ [issued |-> issued', result |-> result'] \in KeylessRuns(called')]_vars

\* a read tool ran while the session held a key
C29_Witness ==
    /\ called = "compare_datasets"
    /\ state.apiKey = "key1"
    /\ Len(issued) = 2
    /\ issued[1].auth = Undefined
    /\ result = Text("comparison")

\* ---- claims on the search types of handleSearch (SpecSearch)

\* the calls to makeRequest: handleSearch waits for one at these places
AwaitsUpstream == hsPc \in {"package_search", "organization_list"}
\* no organization entry comes before a dataset entry
DatasetsFirst ==
    \A i \in DOMAIN hsResults : \A j \in DOMAIN hsResults :
        (i < j /\ hsResults[i] = "organization") => hsResults[j] = "organization"

C30_AllReturned ==
    /\ hsArgs.type = "all"
    /\ hsReturn.returned
    /\ Len(hsResults) >= 3
    /\ hsResults[1] = "dataset"
    /\ hsResults[Len(hsResults)] = "organization"

====
